---- MODULE Spec2Model ----
(***************************************************************************)
(* Verification model of the clinker planning engine                       *)
(* (adani/hack-clink/auth-system/backend): the scenario generator, the     *)
(* solver orchestrator, the constraint sets of the deterministic,          *)
(* stochastic and feasibility-repair model builders, the result parsers,   *)
(* the run page and the analytics engine with the run store.               *)
(*                                                                         *)
(* Numbers.  The program computes with Python floats.  The model uses      *)
(* integers on fixed grids:                                                *)
(*   - probabilities in units of 1e-7 (ProbOne = 1.0, ProbTol = 1e-6);     *)
(*   - demand multipliers in tenths (MultOne = 1.0);                       *)
(*   - quantities (tons) as integers; the 0.8 / 1.2 / 0.5 factors of the   *)
(*     repair constraints are applied by cross-multiplication.             *)
(* Float rounding is not modelled; no input of the model sits on a         *)
(* comparison boundary where rounding would decide the outcome.            *)
(***************************************************************************)
EXTENDS Integers, Sequences, FiniteSets, TLC

VARIABLES
    base_data,      \* scenario generator: the baseline dataset (plant_ids, months, demand)
    scenarios,      \* scenario generator: the input list of DemandScenario records
    genResult,      \* scenario generator: NoResult, or the outcome of generate_demand_scenarios
    config,         \* solve_model: SolverConfig.solver_name as passed by the caller
    env,            \* solve_model: what the machine and the backend do (installed solvers, failures)
    pc,             \* solve_model: position in the function body
    solver_name,    \* solve_model: local variable solver_name
    fallback_chain, \* solve_model: the alternates not yet tried
    avail_checks,   \* solve_model: backends whose availability was asked, in order
    options_set,    \* solve_model: option names assigned on the selected backend
    solve_calls,    \* solve_model: backends on which solve() was called, in order
    outcome,        \* solve_model: NoOutcome, or the SolveOutcome returned
    master,         \* planning run: master data, selected months and the search grid
    mode,           \* planning run: "deterministic", "repair" or "stochastic"
    data,           \* planning run: the OptimizationData handed to the builder
    plan,           \* planning run: the values of the decision variables so far
    stage,          \* planning run: next block of variables to assign
    run_pc,         \* planning run: "load", "build", "search" or "done"
    term,           \* planning run: how the run ended
    objectives,     \* planning run: the objective values of all satisfying plans
    results,        \* planning run: NoResults, or what the result parser returned
    stored          \* planning run: NoRun, or the run document that was saved

scenVars == <<base_data, scenarios, genResult>>
solverVars == <<config, env, pc, solver_name, fallback_chain, avail_checks,
                options_set, solve_calls, outcome>>

planVars == <<master, mode, data, plan, stage, run_pc, term, objectives,
              results, stored>>

vars == <<base_data, scenarios, genResult, config, env, pc, solver_name,
          fallback_chain, avail_checks, options_set, solve_calls, outcome,
          master, mode, data, plan, stage, run_pc, term, objectives,
          results, stored>>

----------------------------------------------------------------------------
(* Generic helpers                                                         *)

Abs(x) == IF x < 0 THEN -x ELSE x

Range(s) == {s[i] : i \in 1..Len(s)}

RECURSIVE SumOver(_, _)
\* sum(f[k] for k in S)
SumOver(S, f) ==
    IF S = {} THEN 0
    ELSE LET k == CHOOSE x \in S : TRUE
         IN  f[k] + SumOver(S \ {k}, f)

----------------------------------------------------------------------------
(* Scenario generator: uncertainty/scenario_generator.py                   *)

MaxScenarios == 2

ProbOne == 10000000
ProbTol == 10
MultOne == 10

\* The scenario names an input may carry, with surrounding blanks.
ScenarioNameInputs == {"", "Low", "Low ", "High"}

\* str.strip() on the names above, and on the month names with blanks.
Strip(n) ==
    CASE n = "Low " -> "Low"
      [] n = " 1" -> "1"
      [] n = "2 " -> "2"
      [] n = " " -> ""
      [] OTHER -> n

ProbabilityInputs == {-5000000, 0, 4999997, 5000000, 10000000}
MultiplierInputs == {-10, 9, 20}

DemandScenario == [name : ScenarioNameInputs,
                   probability : ProbabilityInputs,
                   demand_multiplier : MultiplierInputs]

GenPlants == <<"p1", "p2">>
GenMonths == <<"1">>

\* Baseline demand dictionaries: a full one, and one with a missing pair.
BaseDemands ==
    { (<<"p1", "1">> :> 0) @@ (<<"p2", "1">> :> 100),
      (<<"p2", "1">> :> 80) }

\* dict.get(key, 0.0) or 0.0
DictGet(d, key) == IF key \in DOMAIN d THEN d[key] ELSE 0

\* names = [s.name.strip() for s in scenarios if (s.name or "").strip()]
StrippedNames(scs) ==
    LET all == [i \in 1..Len(scs) |-> Strip(scs[i].name)]
    IN  SelectSeq(all, LAMBDA n : n # "")

RECURSIVE ProbLoop(_, _, _)
\* for s in scenarios: p < 0 raises, else prob[s.name] = p
ProbLoop(scs, i, prob) ==
    IF i > Len(scs) THEN [ok |-> TRUE, prob |-> prob]
    ELSE IF scs[i].probability < 0 THEN [ok |-> FALSE, prob |-> prob]
    ELSE ProbLoop(scs, i + 1,
                  [k \in DOMAIN prob \cup {scs[i].name} |->
                      IF k = scs[i].name THEN scs[i].probability ELSE prob[k]])

RECURSIVE DemandLoop(_, _, _, _)
\* for s in scenarios: mult < 0 raises, else demand[(s.name, p, t)] = base * mult
DemandLoop(bd, scs, i, demand) ==
    IF i > Len(scs) THEN [ok |-> TRUE, demand |-> demand]
    ELSE IF scs[i].demand_multiplier < 0 THEN [ok |-> FALSE, demand |-> demand]
    ELSE LET keys == {<<scs[i].name, p, bd.months[m]>> :
                         p \in Range(bd.plant_ids), m \in 1..Len(bd.months)}
             upd == [k \in DOMAIN demand \cup keys |->
                        IF k \in keys
                        THEN DictGet(bd.demand, <<k[2], k[3]>>) * scs[i].demand_multiplier
                        ELSE demand[k]]
         IN  DemandLoop(bd, scs, i + 1, upd)

NoResult == [status |-> "none"]

GenError(msg) == [status |-> "error", message |-> msg]

EmptyDict == [k \in {} |-> 0]

generate_demand_scenarios(bd, scs) ==
    IF scs = <<>> THEN GenError("No scenarios configured.")
    ELSE LET names == StrippedNames(scs)
         IN
         IF Len(names) # Cardinality(Range(names))
         THEN GenError("Scenario names must be unique.")
         ELSE LET pl == ProbLoop(scs, 1, EmptyDict)
              IN
              IF ~pl.ok THEN GenError("Scenario probability cannot be negative.")
              ELSE IF Abs(SumOver(DOMAIN pl.prob, pl.prob) - ProbOne) > ProbTol
              THEN GenError("Scenario probabilities must sum to 1.")
              ELSE LET dl == DemandLoop(bd, scs, 1, EmptyDict)
                   IN
                   IF ~dl.ok THEN GenError("Demand multiplier cannot be negative.")
                   ELSE [status |-> "ok",
                         scenario_names |-> names,
                         probability |-> pl.prob,
                         demand |-> dl.demand]

\* Values of the variables of a component that is not running.
SolverIdle ==
    /\ config = [solver_name |-> ""]
    /\ env = [installed |-> {}]
    /\ pc = "off"
    /\ solver_name = "None"
    /\ fallback_chain = <<>>
    /\ avail_checks = <<>>
    /\ options_set = {}
    /\ solve_calls = <<>>
    /\ outcome = [ok |-> FALSE, termination_condition |-> "none"]

PlanIdle ==
    /\ master = [name |-> "none"]
    /\ mode = "none"
    /\ data = [months |-> <<>>]
    /\ plan = [Prod |-> <<>>]
    /\ stage = 0
    /\ run_pc = "off"
    /\ term = "none"
    /\ objectives = {}
    /\ results = [status |-> "none"]
    /\ stored = [status |-> "none"]

InitScen ==
    /\ SolverIdle
    /\ PlanIdle
    /\ base_data \in [plant_ids : {GenPlants}, months : {GenMonths}, demand : BaseDemands]
    /\ scenarios = <<>>
    /\ genResult = NoResult

\* The caller adds one scenario definition to the list it will pass.
AddScenario ==
    /\ genResult = NoResult
    /\ Len(scenarios) < MaxScenarios
    /\ \E s \in DemandScenario : scenarios' = Append(scenarios, s)
    /\ UNCHANGED <<base_data, genResult>>
    /\ UNCHANGED solverVars
    /\ UNCHANGED planVars

\* generate_demand_scenarios(base_data, scenarios) is called.
Generate ==
    /\ genResult = NoResult
    /\ genResult' = generate_demand_scenarios(base_data, scenarios)
    /\ UNCHANGED <<base_data, scenarios>>
    /\ UNCHANGED solverVars
    /\ UNCHANGED planVars

NextScen == AddScenario \/ Generate

SpecScen == InitScen /\ [][NextScen]_vars

Accepted == genResult.status = "ok"
Rejected == genResult.status = "error"

\* The conditions the scenario list must meet, over ALL scenarios of the list.
NamesDistinct(scs) ==
    \A i, j \in 1..Len(scs) : i # j => Strip(scs[i].name) # Strip(scs[j].name)

RECURSIVE ProbabilitySum(_, _)
ProbabilitySum(scs, i) ==
    IF i > Len(scs) THEN 0 ELSE scs[i].probability + ProbabilitySum(scs, i + 1)

ValidScenarioList(scs) ==
    /\ NamesDistinct(scs)
    /\ \A i \in 1..Len(scs) : scs[i].probability >= 0 /\ scs[i].demand_multiplier >= 0
    /\ Abs(ProbabilitySum(scs, 1) - ProbOne) <= ProbTol

\* C7: a scenario list is accepted only if its names are pairwise distinct,
\* every probability and multiplier is >= 0 and the probabilities of all its
\* scenarios sum to 1 within 1e-6; any other list is rejected.
C7_AcceptedOnlyIfValid ==
    (genResult # NoResult) =>
        /\ Accepted => ValidScenarioList(scenarios)
        /\ ~ValidScenarioList(scenarios) => Rejected

\* C8: for an accepted list, the returned demand of every (scenario, plant,
\* period) is that scenario's multiplier times the baseline demand (0 when the
\* dataset has no entry for the pair).
C8_DemandIsMultiplierTimesBaseline ==
    Accepted =>
        \A i \in 1..Len(scenarios) : \A p \in Range(base_data.plant_ids) :
            \A m \in 1..Len(base_data.months) :
                LET key == <<scenarios[i].name, p, base_data.months[m]>>
                IN  /\ key \in DOMAIN genResult.demand
                    /\ genResult.demand[key] =
                         scenarios[i].demand_multiplier
                             * DictGet(base_data.demand, <<p, base_data.months[m]>>)

----------------------------------------------------------------------------
(* Solver orchestrator: optimization/solver.py                             *)

\* Names a caller may pass as SolverConfig.solver_name.
SolverNameInputs == {"gurobi", "CBC", " highs ", "scip", "glpk", ""}

\* (config.solver_name or "").strip().lower() on the names above.
Normalize(n) ==
    CASE n = "CBC" -> "cbc"
      [] n = " highs " -> "highs"
      [] OTHER -> n

\* A validity test that lets one more name through.
KnownSolvers_WithGlpk == {"gurobi", "cbc", "highs", "scip", "glpk"}

\* The set literal of the validity test.
KnownSolvers == {"gurobi", "cbc", "highs", "scip"}

\* Every name SolverFactory may be asked for.
FactoryNames == KnownSolvers \cup {"glpk", ""}

\* A chain that tries highs before cbc.
FallbackChain_Reordered(requested) ==
    CASE requested = "gurobi" -> <<"highs", "cbc", "scip">>
      [] requested = "cbc" -> <<"highs", "scip">>
      [] requested = "highs" -> <<"scip">>
      [] OTHER -> <<>>

\* The fallback chain chosen for the requested solver.
FallbackChain(requested) ==
    CASE requested = "gurobi" -> <<"cbc", "highs", "scip">>
      [] requested = "cbc" -> <<"highs", "scip">>
      [] requested = "highs" -> <<"scip">>
      [] OTHER -> <<>>

\* What the backend's results object reports, or "raise" when solve() throws.
SolveResults == {"optimal", "feasible", "infeasible", "maxTimeLimit", "unbounded", "raise"}

\* str(results.solver.status) for each termination.
SolverStatus(tc) ==
    CASE tc \in {"optimal", "feasible"} -> "ok"
      [] tc = "maxTimeLimit" -> "aborted"
      [] OTHER -> "warning"

\* What raises between lines 134 and 138 when solver logs are enabled.
LogFailures == {"none", "makedirs", "logfile_option"}

SolverEnv == [installed : SUBSET KnownSolvers,
              option_fail_at : 0..2,        \* which option assignment raises (0: none)
              solver_logs_enabled : BOOLEAN,
              log_fail : LogFailures,
              solve_result : SolveResults]

NoOutcome == [ok |-> FALSE, termination_condition |-> "none"]

SolveOutcome(ok, tc, status, used) ==
    [ok |-> ok, termination_condition |-> tc, solver_status |-> status,
     solver_used |-> used]

\* A machine on which every backend answers as available.
Available_Always(name) == TRUE

\* solver is not None and solver.available(exception_flag=False)
Available(name) == name \in env.installed

\* An error outcome that leaves out the backend.
ErrorOutcome_NoSolver(name) == SolveOutcome(FALSE, "error", "error", "None")

\* Lines 143-150: the outcome of the except branch.
ErrorOutcome(name) == SolveOutcome(FALSE, "error", "error", name)

\* A termination mapped onto the five documented conditions.
TermOf_Normalised(res) ==
    IF res \in {"optimal", "feasible", "infeasible"} THEN res ELSE "error"

\* Line 153: term = str(getattr(results.solver, "termination_condition", "unknown"))
TermOf(res) == res

\* A run that goes back to the fallback loop after an infeasible solve.
AfterSolve_Retry(tc, chain) ==
    IF tc = "infeasible" /\ chain # <<>> THEN "fallback" ELSE "done"

\* Lines 143-192: every branch after the solve call returns.
AfterSolve(tc, chain) == "done"

\* The options the configuration block assigns, in order, per backend.
OptionNames(name) ==
    CASE name = "gurobi" -> <<"TimeLimit", "MIPGap">>
      [] name = "cbc" -> <<"seconds">>
      [] name = "scip" -> <<"limits/time", "limits/gap">>
      [] OTHER -> <<>>

InitSolver ==
    /\ PlanIdle
    /\ base_data = [plant_ids |-> <<>>, months |-> <<>>, demand |-> EmptyDict]
    /\ scenarios = <<>>
    /\ genResult = NoResult
    /\ config \in [solver_name : SolverNameInputs]
    /\ env \in SolverEnv
    /\ pc = "idle"
    /\ solver_name = "None"
    /\ fallback_chain = <<>>
    /\ avail_checks = <<>>
    /\ options_set = {}
    /\ solve_calls = <<>>
    /\ outcome = NoOutcome

\* Lines 58-85: normalise and validate the name, choose the fallback chain.
ValidateName ==
    /\ pc = "idle"
    /\ LET requested_solver == Normalize(config.solver_name)
       IN  IF requested_solver \notin KnownSolvers
           THEN /\ outcome' = SolveOutcome(FALSE, "invalid", "invalid", "None")
                /\ pc' = "done"
                /\ UNCHANGED <<solver_name, fallback_chain>>
           ELSE /\ solver_name' = requested_solver
                /\ fallback_chain' = FallbackChain(requested_solver)
                /\ pc' = "check_requested"
                /\ UNCHANGED outcome
    /\ UNCHANGED <<config, env, avail_checks, options_set, solve_calls>>
    /\ UNCHANGED scenVars
    /\ UNCHANGED planVars

\* Lines 87-88: SolverFactory(solver_name) and its availability.
CheckRequested ==
    /\ pc = "check_requested"
    /\ avail_checks' = Append(avail_checks, solver_name)
    /\ pc' = IF Available(solver_name) THEN "configure"
             ELSE IF fallback_chain = <<>> THEN "recheck" ELSE "fallback"
    /\ UNCHANGED <<config, env, solver_name, fallback_chain, options_set,
                   solve_calls, outcome>>
    /\ UNCHANGED scenVars
    /\ UNCHANGED planVars

\* Lines 89-94: one iteration of the fallback loop.
FallbackStep ==
    /\ pc = "fallback"
    /\ LET alt == Head(fallback_chain)
       IN  /\ solver_name' = alt
           /\ avail_checks' = Append(avail_checks, alt)
           /\ fallback_chain' = Tail(fallback_chain)
           /\ pc' = IF Available(alt) \/ Tail(fallback_chain) = <<>>
                    THEN "recheck" ELSE "fallback"
    /\ UNCHANGED <<config, env, options_set, solve_calls, outcome>>
    /\ UNCHANGED scenVars
    /\ UNCHANGED planVars

\* Lines 96-107: after the loop, the solver at hand is asked once more.
RecheckAfterLoop ==
    /\ pc = "recheck"
    /\ avail_checks' = Append(avail_checks, solver_name)
    /\ IF Available(solver_name)
       THEN /\ pc' = "configure"
            /\ UNCHANGED outcome
       ELSE /\ outcome' = SolveOutcome(FALSE, "not_available", "not_available", "None")
            /\ pc' = "done"
    /\ UNCHANGED <<config, env, solver_name, fallback_chain, options_set, solve_calls>>
    /\ UNCHANGED scenVars
    /\ UNCHANGED planVars

\* Lines 109-127: best-effort options; an exception ends the block silently.
ConfigureOptions ==
    /\ pc = "configure"
    /\ LET names == OptionNames(solver_name)
           done == IF env.option_fail_at = 0 THEN Len(names)
                   ELSE IF env.option_fail_at - 1 < Len(names)
                        THEN env.option_fail_at - 1 ELSE Len(names)
       IN  options_set' = {names[i] : i \in 1..done}
    /\ pc' = "solve"
    /\ UNCHANGED <<config, env, solver_name, fallback_chain, avail_checks,
                   solve_calls, outcome>>
    /\ UNCHANGED scenVars
    /\ UNCHANGED planVars

\* Lines 129-192: log set-up, the solve call, and the outcome.
RunSolve ==
    /\ pc = "solve"
    /\ IF env.solver_logs_enabled /\ env.log_fail # "none"
       THEN /\ outcome' = ErrorOutcome(solver_name)
            /\ pc' = "done"
            /\ UNCHANGED <<options_set, solve_calls>>
       ELSE /\ options_set' = IF env.solver_logs_enabled
                              THEN options_set \cup {"logfile"} ELSE options_set
            /\ solve_calls' = Append(solve_calls, solver_name)
            /\ IF env.solve_result = "raise"
               THEN /\ outcome' = ErrorOutcome(solver_name)
                    /\ pc' = "done"
               ELSE LET tc == TermOf(env.solve_result)
                    IN  /\ outcome' = SolveOutcome(tc \in {"optimal", "feasible"}, tc,
                                                   SolverStatus(env.solve_result),
                                                   solver_name)
                        /\ pc' = AfterSolve(tc, fallback_chain)
    /\ UNCHANGED <<config, env, solver_name, fallback_chain, avail_checks>>
    /\ UNCHANGED scenVars
    /\ UNCHANGED planVars

NextSolver ==
    \/ ValidateName
    \/ CheckRequested
    \/ FallbackStep
    \/ RecheckAfterLoop
    \/ ConfigureOptions
    \/ RunSolve

SpecSolver == InitSolver /\ [][NextSolver]_vars

\* The enumerated backends in their fixed order.
BackendOrder == <<"gurobi", "cbc", "highs", "scip">>

Requested == Normalize(config.solver_name)

\* The requested backend followed by the backends that come after it.
Candidates(r) ==
    LET i == CHOOSE k \in 1..Len(BackendOrder) : BackendOrder[k] = r
    IN  SubSeq(BackendOrder, i, Len(BackendOrder))

\* Position in Candidates(r) of the first installed backend, 0 if none.
FirstAvailableIdx(r) ==
    LET c == Candidates(r)
        hits == {k \in 1..Len(c) : c[k] \in env.installed}
    IN  IF hits = {} THEN 0 ELSE CHOOSE k \in hits : \A h \in hits : k <= h

RECURSIVE Dedup(_)
\* A sequence without its immediate repetitions.
Dedup(q) ==
    IF Len(q) <= 1 THEN q
    ELSE IF q[1] = q[2] THEN Dedup(Tail(q))
    ELSE <<q[1]>> \o Dedup(Tail(q))

SelectionOver == pc \in {"configure", "solve", "done"}

\* C9: with the requested backend unavailable, the backends after it are
\* asked in the order gurobi, cbc, highs, scip up to the first available one,
\* which is the one solve() is called on and the one reported as solver_used;
\* an available requested backend is used and no other backend is asked.
\* (solve() is called once unless the run ends with termination "error"
\* before the call.)
C9_FallbackOrder ==
    (Requested \in Range(BackendOrder) /\ SelectionOver
        /\ FirstAvailableIdx(Requested) # 0) =>
        LET c == Candidates(Requested)
            k == FirstAvailableIdx(Requested)
            f == c[k]
        IN  /\ solver_name = f
            /\ Dedup(avail_checks) = SubSeq(c, 1, k)
            /\ (f = Requested => avail_checks = <<Requested>>)
            /\ \A i \in 1..Len(solve_calls) : solve_calls[i] = f
            /\ pc = "done" =>
                  /\ outcome.solver_used = f
                  /\ Len(solve_calls) <= 1
                  /\ outcome.termination_condition # "error" => solve_calls = <<f>>

C9_Witness ==
    /\ pc = "done"
    /\ config.solver_name = "gurobi"
    /\ env.installed = {"highs", "scip"}
    /\ avail_checks = <<"gurobi", "cbc", "highs", "highs">>
    /\ solve_calls = <<"highs">>
    /\ outcome.ok
    /\ outcome.solver_used = "highs"

\* C10: a name outside {gurobi, cbc, highs, scip} is refused in the first
\* step: the outcome is a failure with no solver used, and no availability
\* check, fallback step, option assignment or solve call ever happens.
C10_UnknownNameRejected ==
    (pc # "idle" /\ Requested \notin Range(BackendOrder)) =>
        /\ pc = "done"
        /\ ~outcome.ok
        /\ outcome.solver_used = "None"
        /\ avail_checks = <<>>
        /\ solve_calls = <<>>
        /\ options_set = {}
        /\ solver_name = "None"

C10_Witness ==
    /\ pc = "done"
    /\ config.solver_name = "glpk"
    /\ env.installed = KnownSolvers
    /\ ~outcome.ok
    /\ avail_checks = <<>>

\* The backend the selection settles on, "None" when there is none.
Selected ==
    IF Requested \in Range(BackendOrder) /\ FirstAvailableIdx(Requested) # 0
    THEN Candidates(Requested)[FirstAvailableIdx(Requested)]
    ELSE "None"

\* An exception is thrown between lines 129 and 142.
RunRaises ==
    \/ env.solver_logs_enabled /\ env.log_fail # "none"
    \/ env.solve_result = "raise"

\* C11: when the requested backend and every backend of its fallback chain
\* are unavailable, the outcome is a failure with termination not_available
\* and no solver used, and solve() is never called; with some backend of
\* the chain available the outcome is never not_available.
C11_NotAvailable ==
    Requested \in Range(BackendOrder) =>
        /\ FirstAvailableIdx(Requested) = 0 =>
              /\ solve_calls = <<>>
              /\ options_set = {}
              /\ pc = "done" =>
                    /\ ~outcome.ok
                    /\ outcome.termination_condition = "not_available"
                    /\ outcome.termination_condition # "infeasible"
                    /\ outcome.solver_used = "None"
        /\ FirstAvailableIdx(Requested) # 0 =>
              outcome.termination_condition # "not_available"

C11_Witness ==
    /\ pc = "done"
    /\ config.solver_name = "gurobi"
    /\ env.installed = {}
    /\ avail_checks = <<"gurobi", "cbc", "highs", "scip", "scip">>
    /\ solve_calls = <<>>
    /\ outcome.termination_condition = "not_available"

\* C12: at most one solve call is made per invocation; once the selected
\* backend has reported a termination the run is over, the outcome carries
\* that termination and that backend, and no other backend is asked or
\* solved with afterwards.
C12_SingleSolve ==
    /\ Len(solve_calls) <= 1
    /\ solve_calls # <<>> =>
          /\ pc = "done"
          /\ solve_calls = <<Selected>>
          /\ outcome.solver_used = Selected
          /\ Dedup(avail_checks) =
                SubSeq(Candidates(Requested), 1, FirstAvailableIdx(Requested))
          /\ env.solve_result # "raise" =>
                outcome.termination_condition = env.solve_result

C12_Witness ==
    /\ pc = "done"
    /\ config.solver_name = "CBC"
    /\ env.installed = {"cbc", "highs", "scip"}
    /\ env.solve_result = "infeasible"
    /\ solve_calls = <<"cbc">>
    /\ avail_checks = <<"cbc">>
    /\ outcome.termination_condition = "infeasible"
    /\ outcome.solver_used = "cbc"

DocumentedTerminations == {"optimal", "feasible", "infeasible", "not_available", "error"}

\* C13 as stated: the termination condition of every returned outcome is one
\* of optimal, feasible, infeasible, not_available, error.
C13_TerminationDocumented ==
    pc = "done" => outcome.termination_condition \in DocumentedTerminations

\* C13 (amended): the termination condition is "invalid" for a name outside
\* the known backends, "not_available" when no backend of the chain is
\* available, "error" when an exception is thrown around the solve call,
\* and otherwise the backend's own termination string unchanged (optimal,
\* feasible, infeasible, but also maxTimeLimit, unbounded, ...); ok is true
\* exactly for optimal and feasible.
C13_TerminationVerbatim ==
    pc = "done" =>
        /\ outcome.termination_condition =
              IF Requested \notin Range(BackendOrder) THEN "invalid"
              ELSE IF Selected = "None" THEN "not_available"
              ELSE IF RunRaises THEN "error"
              ELSE env.solve_result
        /\ outcome.ok <=> outcome.termination_condition \in {"optimal", "feasible"}

\* A time-limit stop is reported with the backend's own word.
C13_Witness ==
    /\ pc = "done"
    /\ env.solve_result = "maxTimeLimit"
    /\ solve_calls # <<>>
    /\ outcome.termination_condition = "maxTimeLimit"
    /\ ~outcome.ok

\* C14: a failure while setting a solver option (one of the time-limit and
\* gap options, or the log-file option when solver logging is enabled) does
\* not abort the run: solve() is still called on the selected backend and
\* the outcome reports its termination.
C14_OptionFailureDoesNotAbort ==
    (pc = "done" /\ Selected # "None" /\ env.log_fail # "makedirs") =>
        /\ solve_calls = <<Selected>>
        /\ env.solve_result # "raise" =>
              outcome.termination_condition = env.solve_result

\* C15: an exception thrown while the selected backend runs (log set-up or
\* the solve call) yields an outcome with ok = false, termination error and
\* solver_used set to the backend that was attempted; every finished run
\* has an outcome.
C15_ExceptionsBecomeError ==
    pc = "done" =>
        /\ outcome # NoOutcome
        /\ (Selected # "None" /\ RunRaises) =>
              /\ ~outcome.ok
              /\ outcome.termination_condition = "error"
              /\ outcome.solver_status = "error"
              /\ outcome.solver_used = Selected

C15_Witness ==
    /\ pc = "done"
    /\ config.solver_name = "gurobi"
    /\ env.installed = {"cbc", "scip"}
    /\ env.solve_result = "raise"
    /\ solve_calls = <<"cbc">>
    /\ outcome.termination_condition = "error"
    /\ outcome.solver_used = "cbc"

----------------------------------------------------------------------------
(* Planning dataset assembler: optimization/data_loader.py                 *)
(*                                                                         *)
(* Master data are the documents the collaborators return: plants,         *)
(* inventory policies, demand entries and routes, each a sequence of       *)
(* records.  A field that a plant document may lack (production_capacity,  *)
(* production_cost) is a sequence: <<>> when absent, <<v>> when set.       *)

\* [m.strip() for m in selected_months if (m or "").strip()]
CleanMonths(selected_months) ==
    LET stripped == [i \in 1..Len(selected_months) |-> Strip(selected_months[i])]
    IN  SelectSeq(stripped, LAMBDA m : m # "")

SeqIds(plants) == [i \in 1..Len(plants) |-> plants[i].id]

\* The last document of a sequence that matches, as dict construction keeps it.
LastIndex(q, Test(_)) ==
    LET hits == {i \in 1..Len(q) : Test(q[i])}
    IN  IF hits = {} THEN 0 ELSE CHOOSE i \in hits : \A h \in hits : h <= i

RECURSIVE SumSeq(_)
\* The sum of a sequence of numbers, as "+=" accumulates it.
SumSeq(q) == IF q = <<>> THEN 0 ELSE Head(q) + SumSeq(Tail(q))

AsmError(msg) == [status |-> "error", message |-> msg]

\* A loop that stores the entry's quantity instead of adding it.
KeepDemand_Overwrite(demand, key, qty) == [demand EXCEPT ![key] = qty]

\* demand[(plant_id_str, month)] += qty
KeepDemand(demand, key, qty) == [demand EXCEPT ![key] = demand[key] + qty]

RECURSIVE AccumulateDemand(_, _, _, _, _, _)
\* Lines 171-191: for d in all_demands, skip the entries of another class,
\* of a month that is not selected or of an unknown plant; a negative
\* quantity raises; the others are added to demand[(plant, month)].
AccumulateDemand(all_demands, i, demand, plant_ids, months, demand_type_filter) ==
    IF i > Len(all_demands) THEN [ok |-> TRUE, demand |-> demand]
    ELSE LET d == all_demands[i]
             month == Strip(d.month)
             next(dem) == AccumulateDemand(all_demands, i + 1, dem, plant_ids, months,
                                           demand_type_filter)
         IN  IF d.demand_type # demand_type_filter THEN next(demand)
             ELSE IF month \notin Range(months) THEN next(demand)
             ELSE IF d.plant_id \notin Range(plant_ids) THEN next(demand)
             ELSE IF d.demand_quantity < 0 THEN [ok |-> FALSE, demand |-> demand]
             ELSE next(KeepDemand(demand, <<d.plant_id, month>>, d.demand_quantity))

\* Lines 95-226: the dictionaries of OptimizationData, before the checks.
AssembledFields(md, months, demand_type_filter) ==
    LET plants == md.plants
        plant_ids == SeqIds(plants)
        pidset == Range(plant_ids)
        doc(pid) == plants[LastIndex(plants, LAMBDA d : d.id = pid)]
        polIdx(pid) == LastIndex(md.policies, LAMBDA d : d.plant_id = pid)
        known == SelectSeq(md.routes,
                           LAMBDA r : r.from_plant_id \in pidset /\ r.to_plant_id \in pidset)
        key(r) == <<r.from_plant_id, r.to_plant_id, r.transport_mode>>
        keys == {key(known[i]) : i \in 1..Len(known)}
        rdoc(k) == known[LastIndex(known, LAMBDA r : key(r) = k)]
        isClinker(pid) == doc(pid).plant_type = "Clinker Plant"
    IN  [months |-> months,
         plant_ids |-> plant_ids,
         clinker_plants |-> SelectSeq(plant_ids, isClinker),
         storage_capacity |-> [pid \in pidset |-> doc(pid).storage_capacity],
         initial_inventory |-> [pid \in pidset |-> doc(pid).initial_inventory],
         safety_stock |-> [pid \in pidset |->
             IF polIdx(pid) = 0 THEN doc(pid).safety_stock
             ELSE md.policies[polIdx(pid)].safety_stock],
         max_inventory |-> [pid \in pidset |->
             IF polIdx(pid) = 0 THEN doc(pid).storage_capacity
             ELSE md.policies[polIdx(pid)].max_inventory],
         holding_cost |-> [pid \in pidset |->
             IF polIdx(pid) = 0 THEN 0
             ELSE md.policies[polIdx(pid)].holding_cost_per_month],
         production_capacity |-> [pid \in pidset |->
             IF isClinker(pid) /\ doc(pid).production_capacity # <<>>
             THEN doc(pid).production_capacity[1] ELSE 0],
         production_cost |-> [pid \in pidset |->
             IF isClinker(pid) /\ doc(pid).production_cost # <<>>
             THEN doc(pid).production_cost[1] ELSE 0],
         demand |-> AccumulateDemand(md.demands, 1,
                                     [k \in pidset \X Range(months) |-> 0],
                                     plant_ids, months, demand_type_filter).demand,
         routes |-> keys,
         transport_cost_per_trip |-> [k \in keys |-> rdoc(k).cost_per_trip],
         transport_capacity_per_trip |-> [k \in keys |-> rdoc(k).capacity_per_trip],
         transport_sbq |-> [k \in keys |-> rdoc(k).sbq],
         route_enabled |-> [k \in keys |-> rdoc(k).is_enabled]]

\* An assembler without the aggregate demand check.
DemandTooHigh_Never(d) == FALSE

\* A total that counts the demand of the producing plants only.
total_demand_Clinker(d, m) ==
    SumOver(Range(d.clinker_plants), [pid \in Range(d.clinker_plants) |-> d.demand[<<pid, m>>]])

\* sum(demand[(pid, m)] for pid in plant_ids)
total_demand(d, m) ==
    SumOver(Range(d.plant_ids), [pid \in Range(d.plant_ids) |-> d.demand[<<pid, m>>]])

\* sum(initial_inventory[pid] for pid in plant_ids)
total_initial(d) == SumOver(Range(d.plant_ids), d.initial_inventory)

\* sum(production_capacity[pid] for pid in clinker_plants)
total_prod_cap(d) ==
    SumOver(Range(d.clinker_plants),
            [pid \in Range(d.clinker_plants) |-> d.production_capacity[pid]])

\* Lines 231-240: the month whose total demand exceeds stock plus capacity.
DemandTooHigh(d) ==
    \E m \in Range(d.months) :
        total_demand(d, m) > total_initial(d) + total_prod_cap(d)

\* Lines 243-247.
InitialAboveMax(d) ==
    \E pid \in Range(d.plant_ids) : d.initial_inventory[pid] > d.max_inventory[pid]

\* A connectivity check that counts disabled routes as inflow.
DemandWithoutInflow_AnyRoute(d) ==
    LET has_inflow(pid) == \E k \in d.routes : k[2] = pid
    IN  \E pid \in Range(d.plant_ids) : \E m \in Range(d.months) :
            /\ d.demand[<<pid, m>>] > 0
            /\ pid \notin Range(d.clinker_plants)
            /\ ~has_inflow(pid)

\* Lines 251-261.
DemandWithoutInflow(d) ==
    LET has_inflow(pid) == \E k \in d.routes : d.route_enabled[k] /\ k[2] = pid
    IN  \E pid \in Range(d.plant_ids) : \E m \in Range(d.months) :
            /\ d.demand[<<pid, m>>] > 0
            /\ pid \notin Range(d.clinker_plants)
            /\ ~has_inflow(pid)

assemble_optimization_data(md, selected_months, demand_type_filter) ==
    LET months == CleanMonths(selected_months)
        d == AssembledFields(md, months, demand_type_filter)
        plants == md.plants
        pidset == Range(SeqIds(plants))
        counted == SelectSeq(md.demands,
                             LAMBDA e : e.demand_type = demand_type_filter
                                        /\ Strip(e.month) \in Range(months)
                                        /\ e.plant_id \in pidset)
        known == SelectSeq(md.routes,
                           LAMBDA r : r.from_plant_id \in pidset /\ r.to_plant_id \in pidset)
    IN  IF months = <<>> THEN AsmError("Please select at least one month.")
        ELSE IF plants = <<>> THEN AsmError("No plants found. Please create plants first.")
        ELSE IF \E i \in 1..Len(plants) :
                    /\ plants[i].plant_type = "Clinker Plant"
                    /\ plants[i].production_capacity = <<>>
        THEN AsmError("Missing production_capacity for clinker plant")
        ELSE IF \E i \in 1..Len(plants) :
                    /\ plants[i].plant_type = "Clinker Plant"
                    /\ plants[i].production_cost = <<>>
        THEN AsmError("Missing production_cost for clinker plant")
        ELSE IF \E i \in 1..Len(counted) : counted[i].demand_quantity < 0
        THEN AsmError("Demand quantity cannot be negative.")
        ELSE IF md.routes = <<>>
        THEN AsmError("No transport routes found. Please create routes first.")
        ELSE IF \E i \in 1..Len(known) :
                    \/ known[i].capacity_per_trip < 0
                    \/ known[i].cost_per_trip < 0
                    \/ known[i].sbq < 0
        THEN AsmError("Transport cost/capacity/SBQ cannot be negative.")
        ELSE IF \E i \in 1..Len(known) : known[i].sbq > known[i].capacity_per_trip
        THEN AsmError("SBQ cannot exceed capacity for route")
        ELSE IF DemandTooHigh(d) THEN AsmError("Demand seems too high for month")
        ELSE IF InitialAboveMax(d)
        THEN AsmError("Initial inventory is greater than max inventory capacity.")
        ELSE IF DemandWithoutInflow(d)
        THEN AsmError("Plant has demand but no enabled inbound transport route and no clinker production.")
        ELSE [status |-> "ok", data |-> d]

----------------------------------------------------------------------------
(* The assembler on its own: master data with a growing list of demand     *)
(* entries, then one call of assemble_optimization_data.                   *)

MaxDemands == 3

\* The demand entries the collaborator may return: two for the same plant
\* and month (one with a blank in the month), one for the producing plant,
\* one of another class, one of a month that is never selected, one of an
\* unknown plant, and a negative one.
DemandInputs ==
    { [demand_type |-> "Fixed", month |-> "1", plant_id |-> "p2", demand_quantity |-> 1],
      [demand_type |-> "Fixed", month |-> " 1", plant_id |-> "p2", demand_quantity |-> 2],
      [demand_type |-> "Fixed", month |-> "2 ", plant_id |-> "p1", demand_quantity |-> 3],
      [demand_type |-> "High", month |-> "1", plant_id |-> "p2", demand_quantity |-> 1],
      [demand_type |-> "Fixed", month |-> "3", plant_id |-> "p2", demand_quantity |-> 1],
      [demand_type |-> "Fixed", month |-> "1", plant_id |-> "p9", demand_quantity |-> 1],
      [demand_type |-> "Fixed", month |-> "2", plant_id |-> "p2", demand_quantity |-> -1] }

\* The route documents the collaborator may return: the enabled route to
\* the receiving plant; the same route disabled; the enabled route followed
\* by a disabled document of the same key; only a return route.
AsmRouteDoc(i, j, enabled) ==
    [from_plant_id |-> i, to_plant_id |-> j, transport_mode |-> "road",
     cost_per_trip |-> 2, capacity_per_trip |-> 2, sbq |-> 1, is_enabled |-> enabled]

RouteInputs ==
    { << AsmRouteDoc("p1", "p2", TRUE) >>,
      << AsmRouteDoc("p1", "p2", FALSE) >>,
      << AsmRouteDoc("p1", "p2", TRUE), AsmRouteDoc("p1", "p2", FALSE) >>,
      << AsmRouteDoc("p2", "p1", TRUE) >> }

AsmPolicyDoc(pid, safety, maxinv) ==
    [plant_id |-> pid, safety_stock |-> safety, max_inventory |-> maxinv,
     holding_cost_per_month |-> 1]

\* The receiving plant's own safety stock, and the inventory policies: none;
\* none, with a plant safety stock above its storage capacity; a policy
\* within bounds; a policy whose safety stock is above its max inventory;
\* a policy whose max inventory is below the initial inventory.
StockInputs ==
    { [safety |-> 0, policies |-> <<>>],
      [safety |-> 4, policies |-> <<>>],
      [safety |-> 4, policies |-> << AsmPolicyDoc("p2", 1, 3) >>],
      [safety |-> 0, policies |-> << AsmPolicyDoc("p2", 3, 1) >>],
      [safety |-> 0, policies |-> << AsmPolicyDoc("p2", 0, 0) >>] }

\* A producing plant (capacity 2, stock 1), a receiving plant (stock 1);
\* no demand entries yet.
AsmMasters ==
    { [name |-> "asm",
       plants |-> << [id |-> "p1", plant_type |-> "Clinker Plant", storage_capacity |-> 3,
                      initial_inventory |-> 1, safety_stock |-> 0,
                      production_capacity |-> <<2>>, production_cost |-> <<1>>],
                     [id |-> "p2", plant_type |-> "Grinding Unit", storage_capacity |-> 3,
                      initial_inventory |-> 1, safety_stock |-> st.safety,
                      production_capacity |-> <<>>, production_cost |-> <<>>] >>,
       policies |-> st.policies,
       demands |-> <<>>,
       routes |-> rs,
       selected_months |-> sel,
       demand_type_filter |-> f]
      : sel \in {<<"1">>, <<" 1", "2", " ">>}, f \in {"Fixed", "High"},
        rs \in RouteInputs, st \in StockInputs }

InitAsm ==
    /\ SolverIdle
    /\ base_data = [plant_ids |-> <<>>, months |-> <<>>, demand |-> EmptyDict]
    /\ scenarios = <<>>
    /\ genResult = NoResult
    /\ master \in AsmMasters
    /\ mode = "none"
    /\ data = [months |-> <<>>]
    /\ plan = [Prod |-> <<>>]
    /\ stage = 0
    /\ run_pc = "asm_input"
    /\ term = "none"
    /\ objectives = {}
    /\ results = [status |-> "none"]
    /\ stored = [status |-> "none"]

\* get_all_demands() returns one more entry.
AddDemand ==
    /\ run_pc = "asm_input"
    /\ Len(master.demands) < MaxDemands
    /\ \E e \in DemandInputs : master' = [master EXCEPT !.demands = Append(@, e)]
    /\ UNCHANGED <<mode, data, plan, stage, run_pc, term, objectives, results, stored>>
    /\ UNCHANGED scenVars
    /\ UNCHANGED solverVars

\* assemble_optimization_data(selected_months, demand_type_filter): the
\* dataset is returned, or a ValueError carries the message.
Assemble ==
    /\ run_pc = "asm_input"
    /\ LET res == assemble_optimization_data(master, master.selected_months,
                                             master.demand_type_filter)
       IN  IF res.status = "error"
           THEN /\ term' = res.message
                /\ UNCHANGED data
           ELSE /\ term' = "assembled"
                /\ data' = res.data
    /\ run_pc' = "asm_done"
    /\ UNCHANGED <<master, mode, plan, stage, objectives, results, stored>>
    /\ UNCHANGED scenVars
    /\ UNCHANGED solverVars

NextAsm == AddDemand \/ Assemble

SpecAsm == InitAsm /\ [][NextAsm]_vars

----------------------------------------------------------------------------
(* Model builders: the sets, and a plan (one value per decision variable)  *)
(*                                                                         *)
(* A plan is a record of functions: Prod, Inv, DemandSlack over            *)
(* (plant, month) -- Inv over (scenario, plant, month) in the stochastic   *)
(* model -- and Ship, Trips, Use over (route, month), a route being the    *)
(* triple (from, to, mode).                                                *)

big_m_trips == 10000
BIG_M == 10000

\* model.py lines 32-43: the index sets.
SetP(d) == Range(d.plant_ids)
SetT(d) == Range(d.months)
SetR(d) == d.routes
SetCL(d) == Range(d.clinker_plants)
SetIJ(d) == {<<r[1], r[2]>> : r \in d.routes}

\* model.py lines 45-54: the previous month of t, "None" for the first one.
PREV_T(d, t) ==
    LET idx == CHOOSE i \in 1..Len(d.months) : d.months[i] = t
    IN  IF idx = 1 THEN "None" ELSE d.months[idx - 1]

\* sum(m.Ship[i, p, k, t] for (i, j, k) in m.R if j == p)
Inflow(d, pl, p, t) ==
    LET rs == {r \in SetR(d) : r[2] = p}
    IN  SumOver(rs, [r \in rs |-> pl.Ship[<<r, t>>]])

\* sum(m.Ship[p, j, k, t] for (i, j, k) in m.R if i == p)
Outflow(d, pl, p, t) ==
    LET rs == {r \in SetR(d) : r[1] = p}
    IN  SumOver(rs, [r \in rs |-> pl.Ship[<<r, t>>]])

\* model.py lines 147-151: production of non-clinker plants is fixed to 0.
FixNonClinker(d, pl, p, t) == p \notin SetCL(d) => pl.Prod[<<p, t>>] = 0

----------------------------------------------------------------------------
(* Deterministic constraints: optimization/constraints.py                  *)

production_capacity_rule(d, pl, p, t) == pl.Prod[<<p, t>>] <= d.production_capacity[p]

\* A balance with inbound and outbound shipments exchanged.
inventory_balance_rule_Swapped(d, pl, p, t) ==
    LET prev_t == PREV_T(d, t)
        prev == IF prev_t = "None" THEN d.initial_inventory[p] ELSE pl.Inv[<<p, prev_t>>]
    IN  pl.Inv[<<p, t>>] =
            prev + pl.Prod[<<p, t>>] + Outflow(d, pl, p, t) - Inflow(d, pl, p, t)
                - d.demand[<<p, t>>]

inventory_balance_rule(d, pl, p, t) ==
    LET prev_t == PREV_T(d, t)
        inflow == Inflow(d, pl, p, t)
        outflow == Outflow(d, pl, p, t)
        prod == pl.Prod[<<p, t>>]
    IN  IF prev_t = "None"
        THEN pl.Inv[<<p, t>>] = d.initial_inventory[p] + prod + inflow - outflow
                                   - d.demand[<<p, t>>]
        ELSE pl.Inv[<<p, t>>] = pl.Inv[<<p, prev_t>>] + prod + inflow - outflow
                                   - d.demand[<<p, t>>]

safety_stock_rule(d, pl, p, t) == pl.Inv[<<p, t>>] >= d.safety_stock[p]

max_inventory_rule(d, pl, p, t) == pl.Inv[<<p, t>>] <= d.max_inventory[p]

trip_capacity_rule(d, pl, r, t) ==
    pl.Ship[<<r, t>>] <= pl.Trips[<<r, t>>] * d.transport_capacity_per_trip[r]

\* An SBQ rule that is never registered.
sbq_rule_Missing(d, pl, r, t) == TRUE

sbq_rule(d, pl, r, t) ==
    pl.Ship[<<r, t>>] >= pl.Trips[<<r, t>>] * d.transport_sbq[r]

route_enabled_ship_rule(d, pl, r, t) == d.route_enabled[r] \/ pl.Ship[<<r, t>>] = 0
route_enabled_trips_rule(d, pl, r, t) == d.route_enabled[r] \/ pl.Trips[<<r, t>>] = 0
route_enabled_use_rule(d, pl, r, t) == d.route_enabled[r] \/ pl.Use[<<r, t>>] = 0

link_use_trips_rule(d, pl, r, t) ==
    pl.Trips[<<r, t>>] <= big_m_trips * pl.Use[<<r, t>>]

\* A mode rule that allows two modes per lane.
one_mode_rule_Two(d, pl, i, j, t) ==
    LET modes == {r \in SetR(d) : r[1] = i /\ r[2] = j}
    IN  modes = {} \/ SumOver(modes, [r \in modes |-> pl.Use[<<r, t>>]]) <= 2

one_mode_rule(d, pl, i, j, t) ==
    LET modes == {r \in SetR(d) : r[1] = i /\ r[2] = j}
    IN  modes = {} \/ SumOver(modes, [r \in modes |-> pl.Use[<<r, t>>]]) <= 1

\* The constraints of add_constraints that involve the variables of route r
\* in month t (the lane rule is the one of r's lane).
DetRouteRules(d, pl, r, t) ==
    /\ trip_capacity_rule(d, pl, r, t)
    /\ sbq_rule(d, pl, r, t)
    /\ route_enabled_ship_rule(d, pl, r, t)
    /\ route_enabled_trips_rule(d, pl, r, t)
    /\ route_enabled_use_rule(d, pl, r, t)
    /\ link_use_trips_rule(d, pl, r, t)
    /\ one_mode_rule(d, pl, r[1], r[2], t)

\* The constraints of add_constraints indexed by (plant, month).
DetPlantRules(d, pl, p, t) ==
    /\ p \in SetCL(d) => production_capacity_rule(d, pl, p, t)
    /\ FixNonClinker(d, pl, p, t)
    /\ inventory_balance_rule(d, pl, p, t)
    /\ safety_stock_rule(d, pl, p, t)
    /\ max_inventory_rule(d, pl, p, t)

\* build_model: a plan satisfies every registered constraint.
add_constraints(d, pl) ==
    \A t \in SetT(d) :
        /\ \A r \in SetR(d) : DetRouteRules(d, pl, r, t)
        /\ \A ij \in SetIJ(d) : one_mode_rule(d, pl, ij[1], ij[2], t)
        /\ \A p \in SetP(d) : DetPlantRules(d, pl, p, t)

\* An objective that charges transport per shipped quantity.
add_objective_PerQuantity(d, pl) ==
    LET PT == SetP(d) \X SetT(d)
        RT == SetR(d) \X SetT(d)
    IN  SumOver(PT, [k \in PT |-> pl.Prod[k] * d.production_cost[k[1]]])
        + SumOver(RT, [k \in RT |-> pl.Ship[k] * d.transport_cost_per_trip[k[1]]])
        + SumOver(PT, [k \in PT |-> pl.Inv[k] * d.holding_cost[k[1]]])

\* objective.py: production + trips * cost per trip + holding.
add_objective(d, pl) ==
    LET PT == SetP(d) \X SetT(d)
        RT == SetR(d) \X SetT(d)
    IN  SumOver(PT, [k \in PT |-> pl.Prod[k] * d.production_cost[k[1]]])
        + SumOver(RT, [k \in RT |-> pl.Trips[k] * d.transport_cost_per_trip[k[1]]])
        + SumOver(PT, [k \in PT |-> pl.Inv[k] * d.holding_cost[k[1]]])

----------------------------------------------------------------------------
(* Feasibility-repair constraints: optimization/feasible_constraints.py    *)
(* The factors 0.8, 1.2 and 0.5 are applied as 8/10, 12/10 and 1/2.        *)

DemandPenalty == 10000

feasible_inventory_balance_rule(d, pl, p, t) ==
    LET prev_t == PREV_T(d, t)
        inflow == Inflow(d, pl, p, t)
        outflow == Outflow(d, pl, p, t)
        prod == pl.Prod[<<p, t>>]
    IN  IF prev_t = "None"
        THEN pl.Inv[<<p, t>>] = d.initial_inventory[p] + prod + inflow - outflow
                                   - d.demand[<<p, t>>] + pl.DemandSlack[<<p, t>>]
        ELSE pl.Inv[<<p, t>>] = pl.Inv[<<p, prev_t>>] + prod + inflow - outflow
                                   - d.demand[<<p, t>>] + pl.DemandSlack[<<p, t>>]

feasible_safety_stock_rule(d, pl, p, t) == 10 * pl.Inv[<<p, t>>] >= 8 * d.safety_stock[p]

\* A max-inventory rule that takes 20% off instead of adding it.
feasible_max_inventory_rule_Tightened(d, pl, p, t) ==
    10 * pl.Inv[<<p, t>>] <= 8 * d.max_inventory[p]

feasible_max_inventory_rule(d, pl, p, t) == 10 * pl.Inv[<<p, t>>] <= 12 * d.max_inventory[p]

feasible_sbq_rule(d, pl, r, t) ==
    d.transport_sbq[r] > 0 =>
        2 * pl.Ship[<<r, t>>] >= pl.Trips[<<r, t>>] * d.transport_sbq[r]

FeasibleRouteRules(d, pl, r, t) ==
    /\ trip_capacity_rule(d, pl, r, t)
    /\ feasible_sbq_rule(d, pl, r, t)
    /\ route_enabled_ship_rule(d, pl, r, t)
    /\ route_enabled_trips_rule(d, pl, r, t)
    /\ route_enabled_use_rule(d, pl, r, t)
    /\ link_use_trips_rule(d, pl, r, t)
    /\ one_mode_rule(d, pl, r[1], r[2], t)

FeasiblePlantRules(d, pl, p, t) ==
    /\ p \in SetCL(d) => production_capacity_rule(d, pl, p, t)
    /\ FixNonClinker(d, pl, p, t)
    /\ feasible_inventory_balance_rule(d, pl, p, t)
    /\ feasible_safety_stock_rule(d, pl, p, t)
    /\ feasible_max_inventory_rule(d, pl, p, t)

add_feasible_constraints(d, pl) ==
    \A t \in SetT(d) :
        /\ \A r \in SetR(d) : FeasibleRouteRules(d, pl, r, t)
        /\ \A ij \in SetIJ(d) : one_mode_rule(d, pl, ij[1], ij[2], t)
        /\ \A p \in SetP(d) : FeasiblePlantRules(d, pl, p, t)

\* feasible_objective.py: transport cost is charged per shipped quantity.
add_feasible_objective(d, pl) ==
    LET PT == SetP(d) \X SetT(d)
        RT == SetR(d) \X SetT(d)
    IN  SumOver(PT, [k \in PT |-> d.production_cost[k[1]] * pl.Prod[k]])
        + SumOver(RT, [k \in RT |-> d.transport_cost_per_trip[k[1]] * pl.Ship[k]])
        + SumOver(PT, [k \in PT |-> d.holding_cost[k[1]] * pl.Inv[k]])
        + SumOver(PT, [k \in PT |-> DemandPenalty * pl.DemandSlack[k]])

----------------------------------------------------------------------------
(* The simple feasible model: simple_feasible_model.py                     *)
(* The run page builds, solves, parses and saves this repair model.  It    *)
(* has no mode-selection variable, and Trips is a continuous variable.     *)

\* hold_cost_dict: the same holding cost for every plant.
SimpleHoldCost == 50
\* "Assume 100 trips max".
SimpleTripsMax == 100

Max(a, b) == IF a >= b THEN a ELSE b

\* Every month starts from the initial inventory.
simple_inventory_balance_rule(d, pl, p, t) ==
    pl.Inv[<<p, t>>] = d.initial_inventory[p] + pl.Prod[<<p, t>>]
                         + Inflow(d, pl, p, t) - Outflow(d, pl, p, t)
                         - d.demand[<<p, t>>] + pl.DemandSlack[<<p, t>>]

transport_capacity_rule(d, pl, r, t) ==
    pl.Ship[<<r, t>>] <= d.transport_capacity_per_trip[r] * SimpleTripsMax

\* Trips >= Ship / max(RouteCap, 1), both sides times the divisor.
link_trips_to_shipments_rule(d, pl, r, t) ==
    pl.Trips[<<r, t>>] * Max(d.transport_capacity_per_trip[r], 1) >= pl.Ship[<<r, t>>]

SimpleRouteRules(d, pl, r, t) ==
    /\ transport_capacity_rule(d, pl, r, t)
    /\ link_trips_to_shipments_rule(d, pl, r, t)

SimplePlantRules(d, pl, p, t) ==
    /\ p \in SetCL(d) => production_capacity_rule(d, pl, p, t)
    /\ FixNonClinker(d, pl, p, t)
    /\ simple_inventory_balance_rule(d, pl, p, t)

build_simple_feasible_model(d, pl) ==
    \A t \in SetT(d) :
        /\ \A r \in SetR(d) : SimpleRouteRules(d, pl, r, t)
        /\ \A p \in SetP(d) : SimplePlantRules(d, pl, p, t)

\* total_cost_rule: production, transport per shipped quantity, and the
\* demand penalty; inventory is not charged.
total_cost_rule(d, pl) ==
    LET PT == SetP(d) \X SetT(d)
        RT == SetR(d) \X SetT(d)
    IN  SumOver(PT, [k \in PT |-> d.production_cost[k[1]] * pl.Prod[k]])
        + SumOver(RT, [k \in RT |-> d.transport_cost_per_trip[k[1]] * pl.Ship[k]])
        + SumOver(PT, [k \in PT |-> DemandPenalty * pl.DemandSlack[k]])

----------------------------------------------------------------------------
(* Stochastic model: uncertainty/stochastic_model.py                       *)
(* Scenario demand arrives from the generator in tenths of a ton           *)
(* (baseline x multiplier in tenths); the balance is stated in tenths.     *)

SetS(sc) == Range(sc.scenario_names)

\* _demand_init: float(scen.demand.get((s, p, t), 0.0) or 0.0)
StochDemand(sc, s, p, t) == DictGet(sc.demand, <<s, p, t>>)

prod_cap_rule(d, pl, p, t) ==
    IF p \notin SetCL(d) THEN pl.Prod[<<p, t>>] = 0
    ELSE pl.Prod[<<p, t>>] <= d.production_capacity[p]

stoch_route_enabled_rules(d, pl, r, t) ==
    d.route_enabled[r] \/
        (pl.Ship[<<r, t>>] = 0 /\ pl.Trips[<<r, t>>] = 0 /\ pl.Use[<<r, t>>] = 0)

stoch_trip_capacity_rule(d, pl, r, t) ==
    pl.Ship[<<r, t>>] <= pl.Trips[<<r, t>>] * d.transport_capacity_per_trip[r]

stoch_sbq_rule(d, pl, r, t) ==
    pl.Ship[<<r, t>>] >= pl.Trips[<<r, t>>] * d.transport_sbq[r]

mode_selection_rule(d, pl, i, j, t) ==
    LET modes == {r \in SetR(d) : r[1] = i /\ r[2] = j}
    IN  modes = {} \/ SumOver(modes, [r \in modes |-> pl.Use[<<r, t>>]]) <= 1

trips_usemode_rule(d, pl, r, t) == pl.Trips[<<r, t>>] <= BIG_M * pl.Use[<<r, t>>]

\* A balance that charges every scenario the baseline demand.
inv_balance_rule_Baseline(d, sc, pl, s, p, t) ==
    LET idx == CHOOSE i \in 1..Len(d.months) : d.months[i] = t
        prev_inv == IF idx = 1 THEN d.initial_inventory[p]
                    ELSE pl.Inv[<<s, p, d.months[idx - 1]>>]
    IN  pl.Inv[<<s, p, t>>] =
            prev_inv + pl.Prod[<<p, t>>] + Inflow(d, pl, p, t) - Outflow(d, pl, p, t)
                - d.demand[<<p, t>>]

inv_balance_rule(d, sc, pl, s, p, t) ==
    LET idx == CHOOSE i \in 1..Len(d.months) : d.months[i] = t
        prev_inv == IF idx = 1 THEN d.initial_inventory[p]
                    ELSE pl.Inv[<<s, p, d.months[idx - 1]>>]
        inbound == Inflow(d, pl, p, t)
        outbound == Outflow(d, pl, p, t)
    IN  MultOne * pl.Inv[<<s, p, t>>] =
            MultOne * (prev_inv + pl.Prod[<<p, t>>] + inbound - outbound)
                - StochDemand(sc, s, p, t)

stoch_safety_stock_rule(d, pl, s, p, t) == pl.Inv[<<s, p, t>>] >= d.safety_stock[p]

max_inv_rule(d, pl, s, p, t) == pl.Inv[<<s, p, t>>] <= d.max_inventory[p]

StochRouteRules(d, pl, r, t) ==
    /\ stoch_route_enabled_rules(d, pl, r, t)
    /\ stoch_trip_capacity_rule(d, pl, r, t)
    /\ stoch_sbq_rule(d, pl, r, t)
    /\ trips_usemode_rule(d, pl, r, t)
    /\ mode_selection_rule(d, pl, r[1], r[2], t)

StochPlantRules(d, sc, pl, p, t) ==
    /\ prod_cap_rule(d, pl, p, t)
    /\ \A s \in SetS(sc) :
          /\ inv_balance_rule(d, sc, pl, s, p, t)
          /\ stoch_safety_stock_rule(d, pl, s, p, t)
          /\ max_inv_rule(d, pl, s, p, t)

\* build_stochastic_model: a plan satisfies every registered constraint.
build_stochastic_model(d, sc, pl) ==
    \A t \in SetT(d) :
        /\ \A r \in SetR(d) : StochRouteRules(d, pl, r, t)
        /\ \A ij \in SetIJ(d) : mode_selection_rule(d, pl, ij[1], ij[2], t)
        /\ \A p \in SetP(d) : StochPlantRules(d, sc, pl, p, t)

\* An objective whose holding cost is not weighted by the probabilities.
expected_cost_obj_Unweighted(d, sc, pl) ==
    LET PT == SetP(d) \X SetT(d)
        RT == SetR(d) \X SetT(d)
        SPT == SetS(sc) \X SetP(d) \X SetT(d)
    IN  ProbOne * SumOver(PT, [k \in PT |-> d.production_cost[k[1]] * pl.Prod[k]])
        + ProbOne * SumOver(RT, [k \in RT |-> d.transport_cost_per_trip[k[1]] * pl.Trips[k]])
        + SumOver(SPT, [k \in SPT |-> ProbOne * d.holding_cost[k[2]] * pl.Inv[k]])

\* expected_cost_obj, in units of 1e-7 (every term times ProbOne).
expected_cost_obj(d, sc, pl) ==
    LET PT == SetP(d) \X SetT(d)
        RT == SetR(d) \X SetT(d)
        SPT == SetS(sc) \X SetP(d) \X SetT(d)
    IN  ProbOne * SumOver(PT, [k \in PT |-> d.production_cost[k[1]] * pl.Prod[k]])
        + ProbOne * SumOver(RT, [k \in RT |-> d.transport_cost_per_trip[k[1]] * pl.Trips[k]])
        + SumOver(SPT, [k \in SPT |->
              sc.probability[k[1]] * d.holding_cost[k[2]] * pl.Inv[k]])

----------------------------------------------------------------------------
(* The planning run: load, build, and the plans the solver can return.     *)
(*                                                                         *)
(* The solver is an external MILP backend.  It reports "infeasible" when   *)
(* no assignment satisfies the registered constraints, and otherwise       *)
(* returns a satisfying assignment ("optimal" when none is cheaper,        *)
(* "feasible" when it stopped early).  The assignments are enumerated      *)
(* block by block -- month by month, each route's variables, then each     *)
(* plant's -- over a finite grid of quantities; a block is kept only if    *)
(* the constraints over the variables assigned so far hold.                *)

NetMaxQty == 3
NetMaxTrips == 1
NetMaxSlack == 1
E2E1QtySteps == 11
E2E1SlackSteps == 1
E2E2QtySteps == 3
E2E2SlackSteps == 10
E2EMaxTrips == 3
SimpleQtySteps == 5
SimpleSlackSteps == 1

PlantDoc(id, type, storage, inv0, safety, cap, cost) ==
    [id |-> id, plant_type |-> type, storage_capacity |-> storage,
     initial_inventory |-> inv0, safety_stock |-> safety,
     production_capacity |-> cap, production_cost |-> cost]

RouteDoc(i, j, k, cost, cap, sbq, enabled) ==
    [from_plant_id |-> i, to_plant_id |-> j, transport_mode |-> k,
     cost_per_trip |-> cost, capacity_per_trip |-> cap, sbq |-> sbq,
     is_enabled |-> enabled]

DemandDoc(type, month, pid, qty) ==
    [demand_type |-> type, month |-> month, plant_id |-> pid, demand_quantity |-> qty]

PolicyDoc(pid, safety, maxinv, hold) ==
    [plant_id |-> pid, safety_stock |-> safety, max_inventory |-> maxinv,
     holding_cost_per_month |-> hold]

Scenario(n, p, m) == [name |-> n, probability |-> p, demand_multiplier |-> m]

NetGrid == [qty |-> 0..NetMaxQty, trips |-> 0..NetMaxTrips, slack |-> 0..NetMaxSlack]

\* Two plants, a lane with two modes, and a return route.  The two-month
\* selections are planned by the deterministic and the stochastic builder,
\* the one-month selections by the repair builder.  The scenario list whose
\* probabilities sum to 0.9999995 is planned by the stochastic builder on
\* the datasets with a charged stock and no return route.
NetMasters ==
    { [name |-> "net",
       plants |-> << PlantDoc("p1", "Clinker Plant", 3, 1, 0, <<2>>, <<1>>),
                     PlantDoc("p2", "Grinding Unit", 3, inv2, 1, <<>>, <<>>) >>,
       policies |-> pol,
       demands |-> << DemandDoc("Fixed", "1", "p2", q1),
                      DemandDoc("Fixed", "2", "p2", 1),
                      DemandDoc("Fixed", "2", "p1", q2),
                      DemandDoc("High", "1", "p2", 3) >>,
       routes |-> << RouteDoc("p1", "p2", "road", 2, 2, 1, TRUE),
                     RouteDoc("p1", "p2", "rail", 3, 3, 2, TRUE),
                     RouteDoc("p2", "p1", "road", 2, 2, 1, back) >>,
       selected_months |-> sel,
       run_modes |-> IF ph = 5000000
                     THEN (IF Len(sel) = 1 THEN {"repair"}
                           ELSE {"deterministic", "stochastic"})
                     ELSE IF Len(sel) = 2 /\ ~back /\ pol = << PolicyDoc("p2", 0, 3, 1) >>
                     THEN {"stochastic"}
                     ELSE {},
       grid |-> NetGrid,
       scen_list |-> << Scenario("Normal", 5000000, 10), Scenario("High", ph, 20) >>]
      : inv2 \in {1}, q1 \in {1, 2}, q2 \in {0}, back \in BOOLEAN,
        ph \in {5000000, 4999995},
        sel \in {<<"1">>, <<"1", "2">>},
        pol \in { <<>>, << PolicyDoc("p2", 0, 3, 1) >>, << PolicyDoc("p2", 3, 1, 0) >> } }

\* End-to-end scenario: a producing plant (capacity 100, cost 10), a
\* non-producing plant, one route (50 per trip, SBQ 10, 20 per trip).
E2EMaster(nm, qty, g) ==
    [name |-> nm,
     plants |-> << PlantDoc("p1", "Clinker Plant", 100, 0, 0, <<100>>, <<10>>),
                   PlantDoc("p2", "Grinding Unit", 100, 0, 0, <<>>, <<>>) >>,
     policies |-> <<>>,
     demands |-> << DemandDoc("Fixed", "1", "p2", qty) >>,
     routes |-> << RouteDoc("p1", "p2", "road", 20, 50, 10, TRUE) >>,
     selected_months |-> <<"1">>,
     run_modes |-> {"deterministic", "repair"},
     grid |-> g,
     scen_list |-> <<>>]

\* Quantities in multiples of a unit.
StepGrid(unit, qsteps, ssteps) ==
    [qty |-> {k * unit : k \in 0..qsteps}, trips |-> 0..E2EMaxTrips,
     slack |-> {k * unit : k \in 0..ssteps}]

E2EMasters ==
    { E2EMaster("e2e1", 80, StepGrid(10, E2E1QtySteps, E2E1SlackSteps)),
      E2EMaster("e2e2", 500, StepGrid(50, E2E2QtySteps, E2E2SlackSteps)) }

\* The dataset of a run of the simple feasible model: a producing plant
\* (capacity 100, cost 10), a receiving plant with or without opening
\* stock, one route (50 per trip, 20 per unit shipped).
SimpleMasters ==
    { [name |-> "simple",
       plants |-> << PlantDoc("p1", "Clinker Plant", 100, 0, 0, <<100>>, <<10>>),
                     PlantDoc("p2", "Grinding Unit", 100, c.inv2, 0, <<>>, <<>>) >>,
       policies |-> <<>>,
       demands |-> << DemandDoc("Fixed", "1", "p2", c.qty) >>,
       routes |-> << RouteDoc("p1", "p2", "road", 20, 50, 0, TRUE) >>,
       selected_months |-> <<"1">>,
       run_modes |-> {"simple"},
       grid |-> StepGrid(20, SimpleQtySteps, SimpleSlackSteps),
       scen_list |-> <<>>]
      : c \in { [inv2 |-> 0, qty |-> 80], [inv2 |-> 100, qty |-> 80],
                [inv2 |-> 0, qty |-> 120] } }

Masters == NetMasters \cup E2EMasters \cup SimpleMasters

\* The decision variables, all at 0 (model.py lines 133-145, stochastic_model.py 62-68).
EmptyPlan(d, sc, mo) ==
    LET PT == SetP(d) \X SetT(d)
        RT == SetR(d) \X SetT(d)
    IN  [Prod |-> [k \in PT |-> 0],
         Ship |-> [k \in RT |-> 0],
         Trips |-> [k \in RT |-> 0],
         Use |-> [k \in RT |-> 0],
         Inv |-> IF mo = "stochastic"
                 THEN [k \in SetS(sc) \X SetP(d) \X SetT(d) |-> 0]
                 ELSE [k \in PT |-> 0],
         DemandSlack |-> IF mo \in {"repair", "simple"}
                         THEN [k \in PT |-> 0]
                         ELSE [k \in {} |-> 0]]

RECURSIVE SetToSeq(_)
\* The routes in the order the solver takes them.
SetToSeq(S) ==
    IF S = {} THEN <<>>
    ELSE LET x == CHOOSE y \in S : TRUE IN <<x>> \o SetToSeq(S \ {x})

\* A month is a block of stages: one per route, then one per plant.
BlockLen(d) == Cardinality(d.routes) + Len(d.plant_ids)
NStages(d) == Len(d.months) * BlockLen(d)
StageMonth(d, st) == d.months[((st - 1) \div BlockLen(d)) + 1]
StageOffset(d, st) == ((st - 1) % BlockLen(d)) + 1
StageIsRoute(d, st) == StageOffset(d, st) <= Cardinality(d.routes)
StageRoute(d, st) == SetToSeq(d.routes)[StageOffset(d, st)]
StagePlant(d, st) == d.plant_ids[StageOffset(d, st) - Cardinality(d.routes)]

\* The plan with the variables of route r in month t set to the choice c.
WithRoute(pl, r, t, c) ==
    [pl EXCEPT !.Use[<<r, t>>] = c.use,
               !.Trips[<<r, t>>] = c.trips,
               !.Ship[<<r, t>>] = c.ship]

\* The plan with the variables of plant p in month t set to the choice c.
WithPlant(pl, mo, p, t, c) ==
    [pl EXCEPT !.Prod[<<p, t>>] = c.prod,
               !.DemandSlack = IF mo \in {"repair", "simple"}
                               THEN [pl.DemandSlack EXCEPT ![<<p, t>>] = c.slack]
                               ELSE pl.DemandSlack,
               !.Inv = IF mo = "stochastic"
                       THEN [k \in DOMAIN pl.Inv |->
                                IF k[2] = p /\ k[3] = t THEN c.inv[k[1]] ELSE pl.Inv[k]]
                       ELSE [pl.Inv EXCEPT ![<<p, t>>] = c.inv]]

RouteChoices(mo, g) ==
    [use : IF mo = "simple" THEN {0} ELSE 0..1, trips : g.trips, ship : g.qty]

PlantChoices(sc, mo, g) ==
    CASE mo = "deterministic" -> [prod : g.qty, inv : g.qty, slack : {0}]
      [] mo = "repair" -> [prod : g.qty, inv : g.qty, slack : g.slack]
      [] mo = "simple" -> [prod : g.qty, inv : g.qty, slack : g.slack]
      [] mo = "stochastic" -> [prod : g.qty, inv : [SetS(sc) -> g.qty], slack : {0}]

RouteRules(d, mo, pl, r, t) ==
    CASE mo = "deterministic" -> DetRouteRules(d, pl, r, t)
      [] mo = "repair" -> FeasibleRouteRules(d, pl, r, t)
      [] mo = "simple" -> SimpleRouteRules(d, pl, r, t)
      [] mo = "stochastic" -> StochRouteRules(d, pl, r, t)

PlantRules(d, sc, mo, pl, p, t) ==
    CASE mo = "deterministic" -> DetPlantRules(d, pl, p, t)
      [] mo = "repair" -> FeasiblePlantRules(d, pl, p, t)
      [] mo = "simple" -> SimplePlantRules(d, pl, p, t)
      [] mo = "stochastic" -> StochPlantRules(d, sc, pl, p, t)

\* The plans that extend pl by the block of stage st and keep its constraints.
Successors(d, sc, mo, g, pl, st) ==
    LET t == StageMonth(d, st)
    IN  IF StageIsRoute(d, st)
        THEN {q \in {WithRoute(pl, StageRoute(d, st), t, c) : c \in RouteChoices(mo, g)} :
                  RouteRules(d, mo, q, StageRoute(d, st), t)}
        ELSE {q \in {WithPlant(pl, mo, StagePlant(d, st), t, c) : c \in PlantChoices(sc, mo, g)} :
                  PlantRules(d, sc, mo, q, StagePlant(d, st), t)}

SatisfiesAll(d, sc, mo, pl) ==
    CASE mo = "deterministic" -> add_constraints(d, pl)
      [] mo = "repair" -> add_feasible_constraints(d, pl)
      [] mo = "simple" -> build_simple_feasible_model(d, pl)
      [] mo = "stochastic" -> build_stochastic_model(d, sc, pl)

ObjectiveOf(d, sc, mo, pl) ==
    CASE mo = "deterministic" -> add_objective(d, pl)
      [] mo = "repair" -> add_feasible_objective(d, pl)
      [] mo = "simple" -> total_cost_rule(d, pl)
      [] mo = "stochastic" -> expected_cost_obj(d, sc, pl)

MinOf(S) == CHOOSE x \in S : \A y \in S : x <= y

RECURSIVE ObjectivesFrom(_, _, _, _, _, _)
\* The objective values of the satisfying completions of pl.
ObjectivesFrom(d, sc, mo, g, pl, st) ==
    IF st > NStages(d) THEN {ObjectiveOf(d, sc, mo, pl)}
    ELSE UNION {ObjectivesFrom(d, sc, mo, g, q, st + 1) :
                    q \in Successors(d, sc, mo, g, pl, st)}

----------------------------------------------------------------------------
(* Result parsers and the saved run                                        *)
(*                                                                         *)
(* The parsers read every value with float(pyo.value(v)).  A continuous    *)
(* variable that sits at 0 in the plan can come back from the backend as   *)
(* a residue: a value of the size of the backend's tolerance, not exactly  *)
(* 0.  The residue is the set of such variables; it weighs nothing in the  *)
(* cost sums, which are written on the quantity grid.                      *)

NoResidue == [Prod |-> {}, Ship |-> {}]

\* At most one variable carries a residue: the production of a producing
\* plant or the shipment on a route, at 0 in the plan.
ResidueChoices(d, pl) ==
    {NoResidue}
    \cup {[Prod |-> {k}, Ship |-> {}] :
              k \in {x \in SetCL(d) \X SetT(d) : pl.Prod[x] = 0}}
    \cup {[Prod |-> {}, Ship |-> {k}] :
              k \in {x \in SetR(d) \X SetT(d) : pl.Ship[x] = 0}}

\* "qty != 0" on the value read back.
ReadNonZero(v, k, residue) == v[k] # 0 \/ k \in residue

\* The (plant, month) pairs that get a production row.
ProductionRowKeys(d, pl, res) ==
    {k \in SetP(d) \X SetT(d) : ReadNonZero(pl.Prod, k, res.Prod)}

ProductionRows(d, pl, res) ==
    {[plant_id |-> k[1], month |-> k[2], production |-> pl.Prod[k]] :
        k \in ProductionRowKeys(d, pl, res)}

\* "ship_qty != 0 or trips != 0"
TransportRowKeys(d, pl, res) ==
    {k \in SetR(d) \X SetT(d) : ReadNonZero(pl.Ship, k, res.Ship) \/ pl.Trips[k] # 0}

\* "ship_qty != 0" of the simple parser.
SimpleTransportRowKeys(d, pl, res) ==
    {k \in SetR(d) \X SetT(d) : ReadNonZero(pl.Ship, k, res.Ship)}

TransportRows(pl, keys) ==
    {[route |-> k[1], month |-> k[2], shipment |-> pl.Ship[k], trips |-> pl.Trips[k]] :
        k \in keys}

InventoryRows(pl) ==
    {[key |-> k, inventory |-> pl.Inv[k]] : k \in DOMAIN pl.Inv}

\* optimization/result_parser.py
parse_results(d, pl, res) ==
    LET PT == SetP(d) \X SetT(d)
        RT == SetR(d) \X SetT(d)
        prod_cost == SumOver(PT, [k \in PT |-> pl.Prod[k] * d.production_cost[k[1]]])
        trans_cost == SumOver(RT, [k \in RT |-> pl.Trips[k] * d.transport_cost_per_trip[k[1]]])
        hold_cost == SumOver(PT, [k \in PT |-> pl.Inv[k] * d.holding_cost[k[1]]])
    IN  [status |-> "parsed",
         residue |-> res,
         production_rows |-> ProductionRows(d, pl, res),
         transport_rows |-> TransportRows(pl, TransportRowKeys(d, pl, res)),
         inventory_rows |-> InventoryRows(pl),
         cost_breakdown |-> [production |-> prod_cost, transport |-> trans_cost,
                             holding |-> hold_cost],
         objective_value |-> add_objective(d, pl)]

\* uncertainty/result_parser.py, on the expected-cost model (it has Prob);
\* money in units of 1e-7, as expected_cost_obj.
parse_uncertainty_results(d, sc, pl, res) ==
    LET PT == SetP(d) \X SetT(d)
        RT == SetR(d) \X SetT(d)
        SPT == SetS(sc) \X SetP(d) \X SetT(d)
        prod_cost == SumOver(PT, [k \in PT |-> pl.Prod[k] * d.production_cost[k[1]]])
        trans_cost == SumOver(RT, [k \in RT |-> pl.Trips[k] * d.transport_cost_per_trip[k[1]]])
        hold_cost == SumOver(SPT, [k \in SPT |->
                         sc.probability[k[1]] * d.holding_cost[k[2]] * pl.Inv[k]])
    IN  [status |-> "parsed",
         residue |-> res,
         production_rows |-> ProductionRows(d, pl, res),
         transport_rows |-> TransportRows(pl, TransportRowKeys(d, pl, res)),
         inventory_rows |-> InventoryRows(pl),
         cost_breakdown |-> [production |-> ProbOne * prod_cost,
                             transport |-> ProbOne * trans_cost,
                             holding |-> hold_cost],
         objective_value |-> expected_cost_obj(d, sc, pl)]

\* simple_result_parser.py, on the simple feasible model.
parse_simple_results(d, pl, res) ==
    LET PT == SetP(d) \X SetT(d)
        RT == SetR(d) \X SetT(d)
        prod_cost == SumOver(PT, [k \in PT |-> pl.Prod[k] * d.production_cost[k[1]]])
        trans_cost == SumOver(RT, [k \in RT |-> d.transport_cost_per_trip[k[1]] * pl.Ship[k]])
        hold_cost == SumOver(PT, [k \in PT |-> pl.Inv[k] * SimpleHoldCost])
        demand_penalty == SumOver(PT, [k \in PT |-> DemandPenalty * pl.DemandSlack[k]])
    IN  [status |-> "parsed",
         residue |-> res,
         production_rows |-> ProductionRows(d, pl, res),
         transport_rows |-> TransportRows(pl, SimpleTransportRowKeys(d, pl, res)),
         inventory_rows |-> InventoryRows(pl),
         cost_breakdown |-> [production |-> prod_cost, transport |-> trans_cost,
                             holding |-> hold_cost, demand_penalty |-> demand_penalty],
         objective_value |-> total_cost_rule(d, pl)]

\* cost_breakdown.get(key, 0.0)
BreakdownGet(cb, key) == IF key \in DOMAIN cb THEN cb[key] ELSE 0

\* results/result_service.py: the run document handed to create_run.
save_optimization_run(r) ==
    [status |-> "saved",
     objective_value |-> r.objective_value,
     cost_breakdown |-> [production |-> BreakdownGet(r.cost_breakdown, "production"),
                         transport |-> BreakdownGet(r.cost_breakdown, "transport"),
                         holding |-> BreakdownGet(r.cost_breakdown, "holding")],
     production_rows |-> r.production_rows,
     transport_rows |-> r.transport_rows,
     inventory_rows |-> r.inventory_rows]

\* The sum of the components of a cost breakdown.
BreakdownTotal(cb) == SumOver(DOMAIN cb, cb)

InitPlan ==
    /\ SolverIdle
    /\ base_data = [plant_ids |-> <<>>, months |-> <<>>, demand |-> EmptyDict]
    /\ scenarios = <<>>
    /\ genResult = NoResult
    /\ master \in Masters
    /\ mode \in master.run_modes
    /\ data = [months |-> <<>>]
    /\ plan = [Prod |-> <<>>]
    /\ stage = 0
    /\ run_pc = "load"
    /\ term = "none"
    /\ objectives = {}
    /\ results = [status |-> "none"]
    /\ stored = [status |-> "none"]

\* The deterministic and stochastic paths load through the assembler; a
\* validation error ends the run.
LoadAssembled ==
    /\ run_pc = "load"
    /\ mode \in {"deterministic", "stochastic"}
    /\ LET res == assemble_optimization_data(master, master.selected_months, "Fixed")
       IN  IF res.status = "error"
           THEN /\ term' = "validation_error"
                /\ run_pc' = "done"
                /\ UNCHANGED <<data, scenarios, genResult>>
           ELSE /\ data' = res.data
                /\ IF mode = "stochastic"
                   THEN /\ scenarios' = master.scen_list
                        /\ genResult' = generate_demand_scenarios(res.data, master.scen_list)
                   ELSE UNCHANGED <<scenarios, genResult>>
                /\ run_pc' = "build"
                /\ UNCHANGED term
    /\ UNCHANGED <<master, mode, plan, stage, objectives, base_data>>
    /\ UNCHANGED solverVars
    /\ UNCHANGED <<results, stored>>

\* The repair variant is given the same dictionaries without the
\* assembler's aggregate pre-checks.
LoadForRepair ==
    /\ run_pc = "load"
    /\ mode = "repair"
    /\ data' = AssembledFields(master, CleanMonths(master.selected_months), "Fixed")
    /\ run_pc' = "build"
    /\ UNCHANGED <<master, mode, plan, stage, term, objectives>>
    /\ UNCHANGED scenVars
    /\ UNCHANGED solverVars
    /\ UNCHANGED <<results, stored>>

\* build_model / build_stochastic_model / the repair builder: variables are
\* declared; the solver's verdict on the constraint set is determined.
Build ==
    /\ run_pc = "build"
    /\ genResult.status # "error"
    /\ plan' = EmptyPlan(data, genResult, mode)
    /\ stage' = 1
    /\ objectives' = ObjectivesFrom(data, genResult, mode, master.grid,
                                    EmptyPlan(data, genResult, mode), 1)
    /\ run_pc' = "search"
    /\ UNCHANGED <<master, mode, data, term>>
    /\ UNCHANGED scenVars
    /\ UNCHANGED solverVars
    /\ UNCHANGED <<results, stored>>

\* The solver assigns the variables of the next route.
AssignRoute ==
    /\ run_pc = "search"
    /\ stage <= NStages(data)
    /\ StageIsRoute(data, stage)
    /\ \E q \in Successors(data, genResult, mode, master.grid, plan, stage) : plan' = q
    /\ stage' = stage + 1
    /\ UNCHANGED <<master, mode, data, run_pc, term, objectives>>
    /\ UNCHANGED scenVars
    /\ UNCHANGED solverVars
    /\ UNCHANGED <<results, stored>>

\* The solver assigns the variables of the next plant.
AssignPlant ==
    /\ run_pc = "search"
    /\ stage <= NStages(data)
    /\ ~StageIsRoute(data, stage)
    /\ \E q \in Successors(data, genResult, mode, master.grid, plan, stage) : plan' = q
    /\ stage' = stage + 1
    /\ UNCHANGED <<master, mode, data, run_pc, term, objectives>>
    /\ UNCHANGED scenVars
    /\ UNCHANGED solverVars
    /\ UNCHANGED <<results, stored>>

\* The solver found no satisfying assignment.
ReportInfeasible ==
    /\ run_pc = "search"
    /\ stage = 1
    /\ objectives = {}
    /\ term' = "infeasible"
    /\ run_pc' = "done"
    /\ UNCHANGED <<master, mode, data, plan, stage, objectives>>
    /\ UNCHANGED scenVars
    /\ UNCHANGED solverVars
    /\ UNCHANGED <<results, stored>>

\* The solver returns the assignment it completed.
ReportPlan ==
    /\ run_pc = "search"
    /\ stage = NStages(data) + 1
    /\ term' = IF ObjectiveOf(data, genResult, mode, plan) = MinOf(objectives)
               THEN "optimal" ELSE "feasible"
    /\ run_pc' = "done"
    /\ UNCHANGED <<master, mode, data, plan, stage, objectives>>
    /\ UNCHANGED scenVars
    /\ UNCHANGED solverVars
    /\ UNCHANGED <<results, stored>>

\* The run page takes the dataset of the simple feasible model from
\* load_simple_feasible_data, with the same dictionaries as the assembler's.
LoadSimple ==
    /\ run_pc = "load"
    /\ mode = "simple"
    /\ data' = AssembledFields(master, CleanMonths(master.selected_months), "Fixed")
    /\ run_pc' = "build"
    /\ UNCHANGED <<master, mode, plan, stage, term, objectives>>
    /\ UNCHANGED scenVars
    /\ UNCHANGED solverVars
    /\ UNCHANGED <<results, stored>>

\* The solved model is parsed by the parser of its builder.
ParseResults ==
    /\ run_pc = "done"
    /\ term \in {"optimal", "feasible"}
    /\ mode \in {"deterministic", "stochastic", "simple"}
    /\ results.status = "none"
    /\ \E res \in ResidueChoices(data, plan) :
          results' = CASE mode = "deterministic" -> parse_results(data, plan, res)
                       [] mode = "stochastic" ->
                              parse_uncertainty_results(data, genResult, plan, res)
                       [] mode = "simple" -> parse_simple_results(data, plan, res)
    /\ UNCHANGED <<master, mode, data, plan, stage, run_pc, term, objectives, stored>>
    /\ UNCHANGED scenVars
    /\ UNCHANGED solverVars

\* The parsed results are saved as a run document.
SaveRun ==
    /\ results.status = "parsed"
    /\ stored.status = "none"
    /\ stored' = save_optimization_run(results)
    /\ UNCHANGED <<master, mode, data, plan, stage, run_pc, term, objectives, results>>
    /\ UNCHANGED scenVars
    /\ UNCHANGED solverVars

NextPlan ==
    \/ LoadAssembled
    \/ LoadForRepair
    \/ LoadSimple
    \/ ParseResults
    \/ SaveRun
    \/ Build
    \/ AssignRoute
    \/ AssignPlant
    \/ ReportInfeasible
    \/ ReportPlan

SpecPlan == InitPlan /\ [][NextPlan]_vars

\* A complete assignment is on the table.
PlanComplete == stage > 0 /\ stage = NStages(data) + 1

\* Every completed assignment satisfies the whole constraint set of its mode.
CompleteSatisfies == PlanComplete => SatisfiesAll(data, genResult, mode, plan)

----------------------------------------------------------------------------
(* Properties of the plans                                                 *)

RunDone == run_pc = "done"
Solved == RunDone /\ term \in {"optimal", "feasible"}
Months == Range(data.months)
Plants == Range(data.plant_ids)

\* Shipments into and out of plant p in month t, summed over the routes.
ShipIn(p, t) ==
    LET rs == {r \in data.routes : r[2] = p}
    IN  SumOver(rs, [r \in rs |-> plan.Ship[<<r, t>>]])

ShipOut(p, t) ==
    LET rs == {r \in data.routes : r[1] = p}
    IN  SumOver(rs, [r \in rs |-> plan.Ship[<<r, t>>]])

\* C1: in every plan that satisfies the deterministic constraint set, the
\* inventory of every plant and month equals the previous inventory (the
\* initial inventory in the first selected month) plus production plus the
\* shipments in minus the shipments out minus the demand; every plan of the
\* stochastic builder satisfies the same identity for every scenario with
\* that scenario's demand.
C1_InventoryBalance ==
    PlanComplete =>
        /\ mode = "deterministic" =>
              \A p \in Plants : \A i \in 1..Len(data.months) :
                  LET t == data.months[i]
                      prev == IF i = 1 THEN data.initial_inventory[p]
                              ELSE plan.Inv[<<p, data.months[i - 1]>>]
                  IN  plan.Inv[<<p, t>>] =
                          prev + plan.Prod[<<p, t>>] + ShipIn(p, t) - ShipOut(p, t)
                              - data.demand[<<p, t>>]
        /\ mode = "stochastic" =>
              \A s \in Range(genResult.scenario_names) :
              \A p \in Plants : \A i \in 1..Len(data.months) :
                  LET t == data.months[i]
                      prev == IF i = 1 THEN data.initial_inventory[p]
                              ELSE plan.Inv[<<s, p, data.months[i - 1]>>]
                  IN  MultOne * plan.Inv[<<s, p, t>>] =
                          MultOne * (prev + plan.Prod[<<p, t>>] + ShipIn(p, t)
                                         - ShipOut(p, t))
                              - DictGet(genResult.demand, <<s, p, t>>)

\* A solved deterministic run whose second month chains to a positive
\* inventory and has shipments both into and out of the same plant.
C1_Witness ==
    /\ Solved
    /\ mode = "deterministic"
    /\ Len(data.months) = 2
    /\ plan.Inv[<<"p2", "1">>] > 0
    /\ ShipIn("p2", "2") > 0
    /\ ShipOut("p2", "2") > 0
    /\ data.demand[<<"p2", "2">>] > 0

\* C2: in every plan that satisfies the deterministic or the stochastic
\* constraint set, a route and month with Trips > 0 ships between
\* Trips x SBQ and Trips x capacity per trip, and a route and month with
\* Trips = 0 ships nothing.
C2_TripSbqConsistency ==
    (PlanComplete /\ mode \in {"deterministic", "stochastic"}) =>
        \A r \in data.routes : \A t \in Months :
            LET trips == plan.Trips[<<r, t>>]
                ship == plan.Ship[<<r, t>>]
            IN  /\ trips > 0 =>
                      /\ ship >= trips * data.transport_sbq[r]
                      /\ ship <= trips * data.transport_capacity_per_trip[r]
                /\ trips = 0 => ship = 0

\* A solved stochastic run with a route that makes trips and one that does not.
C2_Witness ==
    /\ Solved
    /\ mode = "stochastic"
    /\ \E r \in data.routes : \E t \in Months :
          plan.Trips[<<r, t>>] > 0 /\ plan.Ship[<<r, t>>] > 0
    /\ \E r \in data.routes : \E t \in Months : plan.Trips[<<r, t>>] = 0

\* C3: in every plan that satisfies the deterministic or the stochastic
\* constraint set, for every origin, destination and month at most one
\* route of the lane has Use = 1, and at most one transport mode of the
\* lane has a positive trip count or a positive shipment.
C3_ModeExclusive ==
    (PlanComplete /\ mode \in {"deterministic", "stochastic"}) =>
        \A r \in data.routes : \A t \in Months :
            LET lane == {q \in data.routes : q[1] = r[1] /\ q[2] = r[2]}
            IN  /\ Cardinality({q \in lane : plan.Use[<<q, t>>] = 1}) <= 1
                /\ Cardinality({q \in lane : plan.Trips[<<q, t>>] > 0
                                              \/ plan.Ship[<<q, t>>] > 0}) <= 1

\* A solved deterministic run that takes rail in one month and road in the
\* other on the lane p1 -> p2.
C3_Witness ==
    /\ Solved
    /\ mode = "deterministic"
    /\ Len(data.months) = 2
    /\ plan.Use[<<<<"p1", "p2", "rail">>, "1">>] = 1
    /\ plan.Trips[<<<<"p1", "p2", "rail">>, "1">>] > 0
    /\ plan.Use[<<<<"p1", "p2", "road">>, "1">>] = 0
    /\ plan.Use[<<<<"p1", "p2", "road">>, "2">>] = 1
    /\ plan.Ship[<<<<"p1", "p2", "road">>, "2">>] > 0

E2E2 == master.name = "e2e2"
NonProducing == "p2"

E2E1 == master.name = "e2e1" /\ mode = "deterministic"

\* C6: for demand 80 the deterministic model is feasible, every feasible
\* plan uses at least 2 trips on the route, and the minimum objective
\* value is 840.
C6_Scenario1 ==
    E2E1 =>
        /\ RunDone => term \in {"optimal", "feasible"}
        /\ run_pc = "search" => (objectives # {} /\ MinOf(objectives) = 840)
        /\ PlanComplete =>
              /\ plan.Trips[<<<<"p1", "p2", "road">>, "1">>] >= 2
              /\ add_objective(data, plan) >= 840
        /\ (RunDone /\ term = "optimal") => add_objective(data, plan) = 840

\* The optimal plan: 80 produced, 80 shipped in 2 trips, nothing held.
C6_Witness ==
    /\ E2E1
    /\ RunDone
    /\ term = "optimal"
    /\ plan.Prod[<<"p1", "1">>] = 80
    /\ plan.Ship[<<<<"p1", "p2", "road">>, "1">>] = 80
    /\ plan.Trips[<<<<"p1", "p2", "road">>, "1">>] = 2
    /\ add_objective(data, plan) = 840

----------------------------------------------------------------------------
(* Properties of the parsed and the saved results                          *)

Parsed == results.status = "parsed"
Saved == stored.status = "saved"

\* C16: for every solved run the components of the cost breakdown that the
\* result parser recomputes (production, transport, holding, and the
\* penalty of the repair model) sum to the objective value it reports, and
\* so do the components of the breakdown stored with the run.
C16_BreakdownSumsToObjective ==
    /\ Parsed => BreakdownTotal(results.cost_breakdown) = results.objective_value
    /\ Saved => BreakdownTotal(stored.cost_breakdown) = stored.objective_value

\* The part of C16 that the deterministic and the scenario parser meet.
ParsedSumsOutsideRepair ==
    Parsed /\ mode # "simple" =>
        BreakdownTotal(results.cost_breakdown) = results.objective_value

\* The part of C16 about the stored breakdown when no penalty is due and
\* the parser's sum is right.
StoredSumsWithoutPenalty ==
    Saved /\ BreakdownGet(results.cost_breakdown, "demand_penalty") = 0
          /\ BreakdownTotal(results.cost_breakdown) = results.objective_value
      => BreakdownTotal(stored.cost_breakdown) = stored.objective_value

----------------------------------------------------------------------------
(* Properties of the stochastic objective                                  *)

Stochastic == Solved /\ mode = "stochastic"
Scens == SetS(genResult)
Routes == SetR(data)

\* The cost terms of the solved plan, by the claim's names.
ProductionCost ==
    SumOver(Plants \X Months,
            [k \in Plants \X Months |-> data.production_cost[k[1]] * plan.Prod[k]])
TransportCost ==
    SumOver(Routes \X Months,
            [k \in Routes \X Months |-> data.transport_cost_per_trip[k[1]] * plan.Trips[k]])
HoldingCostOf(s) ==
    SumOver(Plants \X Months,
            [k \in Plants \X Months |-> data.holding_cost[k[1]] * plan.Inv[<<s, k[1], k[2]>>]])
PenaltyOf(s) ==
    SumOver(Plants \X Months,
            [k \in Plants \X Months |-> DemandPenalty * plan.DemandSlack[<<s, k[1], k[2]>>]])

\* Production, Shipment, Trips and ModeSelected have one value per
\* (plant or route, month), Inventory one per (scenario, plant, month).
SharedDecisions ==
    /\ DOMAIN plan.Prod = Plants \X Months
    /\ DOMAIN plan.Ship = Routes \X Months
    /\ DOMAIN plan.Trips = Routes \X Months
    /\ DOMAIN plan.Use = Routes \X Months
    /\ DOMAIN plan.Inv = Scens \X Plants \X Months

\* C17 as stated: the stochastic objective is the production cost plus the
\* sum over scenarios of probability times (transport cost + holding cost
\* of the scenario + unmet-demand penalty of the scenario); production,
\* shipment, trips and mode selection carry no scenario index, inventory
\* and demand slack are indexed by scenario.  Money in units of 1e-7.
C17_ExpectedCostWithPenalty ==
    Stochastic =>
        /\ SharedDecisions
        /\ DOMAIN plan.DemandSlack = Scens \X Plants \X Months
        /\ ObjectiveOf(data, genResult, mode, plan)
             = ProbOne * ProductionCost
               + SumOver(Scens, [s \in Scens |->
                     genResult.probability[s]
                       * (TransportCost + HoldingCostOf(s) + PenaltyOf(s))])

\* C17 as the code has it: the stochastic objective is the production cost
\* plus the transport cost, both of the shared plan and not weighted, plus
\* the sum over scenarios of probability times the holding cost of the
\* scenario; production, shipment, trips and mode selection carry no
\* scenario index, inventory is indexed by scenario, and the model has no
\* demand slack and no penalty.
C17_ExpectedHoldingOnly ==
    Stochastic =>
        /\ SharedDecisions
        /\ DOMAIN plan.DemandSlack = {}
        /\ ObjectiveOf(data, genResult, mode, plan)
             = ProbOne * (ProductionCost + TransportCost)
               + SumOver(Scens, [s \in Scens |->
                     genResult.probability[s] * HoldingCostOf(s)])

\* An optimal stochastic plan with trips, with charged stock that differs
\* between two scenarios, under probabilities that do not sum to exactly 1.
C17_Witness ==
    /\ Stochastic
    /\ term = "optimal"
    /\ \E k \in Routes \X Months : plan.Trips[k] > 0
    /\ \E s1 \in Scens, s2 \in Scens, p \in Plants, t \in Months :
          /\ data.holding_cost[p] > 0
          /\ plan.Inv[<<s1, p, t>>] > plan.Inv[<<s2, p, t>>]
    /\ SumOver(Scens, genResult.probability) # ProbOne

----------------------------------------------------------------------------
(* Properties of the result tables                                         *)

ProductionRowPairs == {<<r.plant_id, r.month>> : r \in results.production_rows}
TransportRowPairs == {<<r.route, r.month>> : r \in results.transport_rows}

\* The variables whose solved value is above epsilon: on the quantity grid,
\* the ones that are not 0 in the plan.  A residue is within epsilon of 0.
ProductionAboveEpsilon == {k \in Plants \X Months : plan.Prod[k] > 0}
TransportAboveEpsilon ==
    {k \in Routes \X Months : plan.Ship[k] > 0 \/ plan.Trips[k] > 0}

ParsedByBackendParser == Parsed /\ mode \in {"deterministic", "stochastic"}

\* C18: the result parser emits a production row exactly for the (plant,
\* period) pairs whose solved production is above epsilon and a transport
\* row exactly for the (route, period) pairs whose shipment or trip count
\* is above epsilon; values that are zero or within epsilon of zero never
\* appear as rows.
C18_RowsAboveEpsilon ==
    ParsedByBackendParser =>
        /\ ProductionRowPairs = ProductionAboveEpsilon
        /\ TransportRowPairs = TransportAboveEpsilon

\* The same statement for the runs in which the backend returned every
\* zero as an exact 0.
RowsAboveEpsilonWithoutResidue ==
    ParsedByBackendParser /\ results.residue = NoResidue =>
        /\ ProductionRowPairs = ProductionAboveEpsilon
        /\ TransportRowPairs = TransportAboveEpsilon

----------------------------------------------------------------------------
(* Properties of the assembled dataset                                     *)

AsmDone == run_pc = "asm_done"
Returned == AsmDone /\ term = "assembled"
SelectedPeriods == Range(CleanMonths(master.selected_months))
KnownPlants == {master.plants[i].id : i \in 1..Len(master.plants)}

\* The demand entries of the filter's class for plant pid and period m.
MatchingEntries(pid, m) ==
    SelectSeq(master.demands,
              LAMBDA e : /\ e.demand_type = master.demand_type_filter
                         /\ Strip(e.month) = m
                         /\ e.plant_id = pid)

MatchingTotal(pid, m) ==
    LET es == MatchingEntries(pid, m)
    IN  SumSeq([i \in 1..Len(es) |-> es[i].demand_quantity])

\* C19: in every dataset returned by assemble_optimization_data the demand
\* of every (plant, selected period) pair is the sum of the quantities of
\* the demand entries that match the demand-class filter, that period and
\* that plant, and 0 when there is none; entries of other classes, other
\* periods or unknown plants contribute nothing.
C19_DemandIsSumOfMatching ==
    Returned =>
        /\ DOMAIN data.demand = KnownPlants \X SelectedPeriods
        /\ \A pid \in KnownPlants, m \in SelectedPeriods :
              /\ data.demand[<<pid, m>>] = MatchingTotal(pid, m)
              /\ MatchingEntries(pid, m) = <<>> => data.demand[<<pid, m>>] = 0

\* A returned dataset with two entries added up for one pair, next to an
\* entry that does not count.
C19_Witness ==
    /\ Returned
    /\ \E pid \in KnownPlants, m \in SelectedPeriods :
          /\ Len(MatchingEntries(pid, m)) = 2
          /\ data.demand[<<pid, m>>] = 3
    /\ \E i \in 1..Len(master.demands) :
          \/ master.demands[i].demand_type # master.demand_type_filter
          \/ Strip(master.demands[i].month) \notin SelectedPeriods
          \/ master.demands[i].plant_id \notin KnownPlants

\* Totals over the master data, by the claim's names.
PeriodDemand(m) == SumOver(KnownPlants, [pid \in KnownPlants |-> MatchingTotal(pid, m)])
InitialStock ==
    SumSeq([i \in 1..Len(master.plants) |-> master.plants[i].initial_inventory])
ProducingCapacity ==
    SumSeq([i \in 1..Len(master.plants) |->
               IF master.plants[i].plant_type = "Clinker Plant"
               THEN master.plants[i].production_capacity[1] ELSE 0])

\* C20: assemble_optimization_data fails whenever, for some selected
\* period, the total demand over all plants exceeds the total initial
\* inventory over all plants plus the total production capacity of the
\* producing plants; every returned dataset satisfies that bound in every
\* selected period.
C20_FailsWhenDemandExceedsSupply ==
    AsmDone =>
        /\ (\E m \in SelectedPeriods : PeriodDemand(m) > InitialStock + ProducingCapacity)
              => term # "assembled"
        /\ term = "assembled" =>
              \A m \in Range(data.months) :
                  SumOver(Range(data.plant_ids),
                          [pid \in Range(data.plant_ids) |-> data.demand[<<pid, m>>]])
                    <= InitialStock + ProducingCapacity

\* The assembly fails on the demand check: no entry is negative and one
\* period's demand is above stock plus capacity.
C20_Witness ==
    /\ AsmDone
    /\ term = "Demand seems too high for month"
    /\ \A i \in 1..Len(master.demands) : master.demands[i].demand_quantity >= 0
    /\ \E m \in SelectedPeriods : PeriodDemand(m) > InitialStock + ProducingCapacity

\* The plants that do not produce, from the plant documents.
NonProducingPlants ==
    {master.plants[i].id : i \in {j \in 1..Len(master.plants) :
                                     master.plants[j].plant_type # "Clinker Plant"}}

\* The non-producing plants with positive demand in some selected period.
DemandingPlants ==
    {pid \in NonProducingPlants : \E m \in SelectedPeriods : MatchingTotal(pid, m) > 0}

\* The route document that decides a route of the dataset: the last one
\* with its key, between known plants.
DecidingRouteDocs ==
    {i \in 1..Len(master.routes) :
        /\ master.routes[i].from_plant_id \in KnownPlants
        /\ master.routes[i].to_plant_id \in KnownPlants
        /\ \A j \in (i + 1)..Len(master.routes) :
              <<master.routes[j].from_plant_id, master.routes[j].to_plant_id,
                master.routes[j].transport_mode>>
                # <<master.routes[i].from_plant_id, master.routes[i].to_plant_id,
                    master.routes[i].transport_mode>>}

EnabledInbound(pid) ==
    \E i \in DecidingRouteDocs :
        master.routes[i].to_plant_id = pid /\ master.routes[i].is_enabled

\* C21: in every dataset returned by assemble_optimization_data, every
\* non-producing plant with positive demand in some selected period is the
\* destination of at least one enabled route of the dataset; the assembly
\* fails otherwise.
C21_DemandHasEnabledInflow ==
    AsmDone =>
        /\ term = "assembled" =>
              \A pid \in DemandingPlants :
                  \E k \in data.routes : data.route_enabled[k] /\ k[2] = pid
        /\ (\E pid \in DemandingPlants : ~EnabledInbound(pid)) => term # "assembled"

\* The assembly fails on the connectivity check, for a route whose last
\* document is disabled after an enabled one.
C21_Witness ==
    /\ AsmDone
    /\ term = "Plant has demand but no enabled inbound transport route and no clinker production."
    /\ Len(master.routes) = 2
    /\ DemandingPlants # {}

InitialWithinMaxInventory ==
    Returned =>
        \A pid \in Range(data.plant_ids) :
            data.initial_inventory[pid] <= data.max_inventory[pid]


----------------------------------------------------------------------------
(* Analytics engine: analytics/analytics_service.py with kpi_engine.py,    *)
(* utilization_analysis.py, bottleneck_detector.py, cost_driver_analysis.py *)
(* and the run store of results/result_repository.py.                      *)
(*                                                                         *)
(* Percentages are integers in units of 1/PctOne percent.  The inputs of   *)
(* the model make every division (a utilization, a mean) exact.  The run   *)
(* store is the sequence stored; the id of a run is its position.  An      *)
(* optional float is a sequence: <<>> is None, <<x>> is x.                 *)

PctOne == 24
MaxRuns == 2

None == <<>>
Some(x) == <<x>>

\* str.lower() on the status strings of the model.
Lower(s) ==
    CASE s = "Success" -> "success"
      [] s = "SUCCESS" -> "success"
      [] s = "Failed" -> "failed"
      [] OTHER -> s

\* Master data read by the analytics (get_all_plants, get_all_routes,
\* get_all_policies): p1 makes clinker, p2 grinds, one road route p1 -> p2.
AnalyticsMaster ==
    [name |-> "analytics",
     plants |-> <<[id |-> "p1", production_capacity |-> 4, production_cost |-> 3,
                   storage_capacity |-> 4, safety_stock |-> 1],
                  [id |-> "p2", production_capacity |-> 0, production_cost |-> 0,
                   storage_capacity |-> 9, safety_stock |-> 1]>>,
     policies |-> <<[plant_id |-> "p2", max_inventory |-> 4]>>,
     routes |-> <<[from_plant_id |-> "p1", to_plant_id |-> "p2", transport_mode |-> "road",
                   capacity_per_trip |-> 2, cost_per_trip |-> 5]>>]

\* dict.get(key, 0.0) on a dict given as a function.
GetOr0(f, k) == IF k \in DOMAIN f THEN f[k] ELSE 0

prod_cap(m) == [pid \in {p.id : p \in Range(m.plants)} |->
                  (CHOOSE p \in Range(m.plants) : p.id = pid).production_capacity]
prod_cost(m) == [pid \in {p.id : p \in Range(m.plants)} |->
                  (CHOOSE p \in Range(m.plants) : p.id = pid).production_cost]

\* _build_inventory_defaults: safety stock from the plant, max inventory from
\* the policy of the plant, else its storage capacity.
build_safety_stock(m) ==
    [pid \in {p.id : p \in Range(m.plants)} |->
        (CHOOSE p \in Range(m.plants) : p.id = pid).safety_stock]
build_max_inventory(m) ==
    [pid \in {p.id : p \in Range(m.plants)} |->
        IF \E i \in 1..Len(m.policies) : m.policies[i].plant_id = pid
        THEN LET last == CHOOSE i \in 1..Len(m.policies) :
                            /\ m.policies[i].plant_id = pid
                            /\ \A j \in 1..Len(m.policies) :
                                   m.policies[j].plant_id = pid => j <= i
             IN  m.policies[last].max_inventory
        ELSE (CHOOSE p \in Range(m.plants) : p.id = pid).storage_capacity]

RouteKey(r) == <<r.from_plant_id, r.to_plant_id, r.transport_mode>>
route_cap(m) == [k \in {RouteKey(r) : r \in Range(m.routes)} |->
                   (CHOOSE r \in Range(m.routes) : RouteKey(r) = k).capacity_per_trip]
route_cost(m) == [k \in {RouteKey(r) : r \in Range(m.routes)} |->
                   (CHOOSE r \in Range(m.routes) : RouteKey(r) = k).cost_per_trip]

\* compute_kpis: the service level is 100 for a run whose status reads
\* "success" in any letter case, 0 otherwise; the cost KPIs copy the run.
service_level_of(run) ==
    IF Lower(run.status) = "success" THEN 100 * PctOne ELSE 0

compute_kpis(run) ==
    [total_cost |-> run.objective_value,
     cost_production |-> run.cost_breakdown.production,
     cost_transport |-> run.cost_breakdown.transport,
     cost_holding |-> run.cost_breakdown.holding,
     service_level_percent |-> service_level_of(run)]

\* sum of column col over the rows q whose index is in I
RowSum(q, I, col) == SumOver(I, [i \in I |-> q[i][col]])

\* compute_utilization, production: one row per plant of production_rows,
\* total production over capacity times the number of months.
production_utilization(run, m) ==
    LET rows == run.production_rows
        pids == {rows[i].plant_id : i \in 1..Len(rows)}
    IN  [pid \in pids |->
            LET produced == RowSum(rows, {i \in 1..Len(rows) : rows[i].plant_id = pid},
                                   "production")
                cap == GetOr0(prod_cap(m), pid) * Max(Len(run.months), 1)
            IN  IF cap > 0 THEN (produced * 100 * PctOne) \div cap ELSE 0]

\* _safe_float(r.get("trips")): 0.0 for a row without the column.
TripsOf(r) == IF "trips" \in DOMAIN r THEN r.trips ELSE 0

\* compute_utilization, transport: one row per transport row, shipment over
\* trips times capacity per trip.
transport_utilization(run, m) ==
    LET rows == run.transport_rows
    IN  [i \in 1..Len(rows) |->
            LET denom == TripsOf(rows[i])
                           * GetOr0(route_cap(m), <<rows[i].from_id, rows[i].to_id, rows[i].mode>>)
            IN  [trips |-> TripsOf(rows[i]),
                 utilization_percent |->
                     IF denom > 0 THEN (rows[i].shipment * 100 * PctOne) \div denom ELSE 0]]

\* compute_utilization, storage: one row per plant of inventory_rows, mean
\* inventory over max inventory.
storage_utilization(run, m) ==
    LET rows == run.inventory_rows
        pids == {rows[i].plant_id : i \in 1..Len(rows)}
    IN  [pid \in pids |->
            LET I == {i \in 1..Len(rows) : rows[i].plant_id = pid}
                max_inv == GetOr0(build_max_inventory(m), pid)
            IN  IF max_inv > 0
                THEN (RowSum(rows, I, "inventory") * 100 * PctOne)
                         \div (Cardinality(I) * max_inv)
                ELSE 0]

compute_utilization(run, m) ==
    [production |-> production_utilization(run, m),
     transport |-> [i \in DOMAIN transport_utilization(run, m) |->
                       transport_utilization(run, m)[i].utilization_percent],
     transport_trips |-> [i \in DOMAIN transport_utilization(run, m) |->
                       transport_utilization(run, m)[i].trips],
     storage |-> storage_utilization(run, m)]

\* detect_bottlenecks: plants at 90% or more, routes with trips at 90% or
\* more, plants whose inventory touches the safety stock.
detect_bottlenecks(util, run, m) ==
    [plants |-> {pid \in DOMAIN util.production : util.production[pid] >= 90 * PctOne},
     routes |-> {i \in DOMAIN util.transport :
                    util.transport_trips[i] > 0 /\ util.transport[i] >= 90 * PctOne},
     inventory |-> {run.inventory_rows[i].plant_id : i \in
                      {j \in 1..Len(run.inventory_rows) :
                          run.inventory_rows[j].inventory
                            - GetOr0(build_safety_stock(m), run.inventory_rows[j].plant_id) <= 0}}]

\* compute_cost_drivers: trans_df2["trips"] raises KeyError when the rows
\* have no such column; otherwise the cost per plant and per route.
CostDriversRaise(run) ==
    /\ run.transport_rows # <<>>
    /\ \A i \in 1..Len(run.transport_rows) : "trips" \notin DOMAIN run.transport_rows[i]

compute_cost_drivers(run, m) ==
    LET prows == run.production_rows
        trows == run.transport_rows
    IN  [top_plants |->
            [pid \in {prows[i].plant_id : i \in 1..Len(prows)} |->
                GetOr0(prod_cost(m), pid)
                  * RowSum(prows, {i \in 1..Len(prows) : prows[i].plant_id = pid}, "production")],
         top_routes |->
            [k \in {<<trows[i].from_id, trows[i].to_id, trows[i].mode>> : i \in 1..Len(trows)} |->
                SumOver({i \in 1..Len(trows) :
                            <<trows[i].from_id, trows[i].to_id, trows[i].mode>> = k},
                        [i \in 1..Len(trows) |-> GetOr0(route_cost(m), k) * TripsOf(trows[i])])]]

\* _avg_headroom: None for an empty table, else max(0, 100 - mean utilization).
avg_headroom(table) ==
    IF DOMAIN table = {} THEN None
    ELSE Some(Max(0, 100 * PctOne
                       - SumOver(DOMAIN table, table) \div Cardinality(DOMAIN table)))

resilience_components(run, m) ==
    LET util == compute_utilization(run, m)
    IN  [service_level |-> Some(compute_kpis(run).service_level_percent),
         production_headroom |-> avg_headroom(util.production),
         storage_headroom |-> avg_headroom(util.storage),
         transport_headroom |-> avg_headroom(util.transport)]

\* component_values = [v for v in components.values() if v is not None]
component_values(comp) == {k \in DOMAIN comp : comp[k] # None}

\* sum(component_values) / len(component_values), 0.0 without any.
resilience_score_ZeroForNone(comp) ==
    SumOver(component_values(comp), [k \in component_values(comp) |-> comp[k][1]])
        \div Cardinality(DOMAIN comp)

resilience_score(comp) ==
    IF component_values(comp) = {} THEN 0
    ELSE SumOver(component_values(comp), [k \in component_values(comp) |-> comp[k][1]])
             \div Cardinality(component_values(comp))

classification(score) ==
    IF score >= 80 * PctOne THEN "Resilient"
    ELSE IF score >= 60 * PctOne THEN "Balanced"
    ELSE "At Risk"

analytics_doc(run, m) ==
    LET util == compute_utilization(run, m)
        comp == resilience_components(run, m)
    IN  [kpis |-> compute_kpis(run),
         utilization |-> [production |-> util.production, transport |-> util.transport,
                          storage |-> util.storage],
         bottlenecks |-> detect_bottlenecks(util, run, m),
         cost_drivers |-> compute_cost_drivers(run, m),
         resilience |-> [score |-> resilience_score(comp),
                         classification |-> classification(resilience_score(comp)),
                         components |-> comp]]

\* summary_metrics = dict(run.get("summary_metrics") or {}) with the two
\* resilience keys assigned.
summary_metrics_of(run, m) ==
    LET old == run.summary_metrics
        score == resilience_score(resilience_components(run, m))
    IN  [k \in DOMAIN old \cup {"resilience_score", "resilience_classification"} |->
            IF k = "resilience_score" THEN Some(score)
            ELSE IF k = "resilience_classification" THEN <<classification(score)>>
            ELSE old[k]]

\* update_payload = {"analytics": ..., "summary_metrics": ...}
update_payload_WithStatus(run, m) ==
    [analytics |-> analytics_doc(run, m),
     summary_metrics |-> summary_metrics_of(run, m),
     status |-> "analysed"]

update_payload(run, m) ==
    [analytics |-> analytics_doc(run, m),
     summary_metrics |-> summary_metrics_of(run, m)]

\* create_run(doc): final_doc is the document with created_at set.
create_run(doc, now) ==
    [k \in DOMAIN doc \cup {"created_at"} |-> IF k = "created_at" THEN now ELSE doc[k]]

\* find_run_by_id: the run ids of the store are 1..Len(store); any other id
\* (unknown, or not an ObjectId) finds nothing.
RunExists(store, run_id) == run_id \in 1..Len(store)

\* update_one with $set: the named fields are assigned, the others kept.
SetFields(doc, fields) ==
    [k \in DOMAIN doc \cup DOMAIN fields |->
        IF k \in DOMAIN fields THEN fields[k] ELSE doc[k]]

update_run_fields(store, run_id, fields) ==
    IF RunExists(store, run_id)
    THEN [ok |-> TRUE, store |-> [store EXCEPT ![run_id] = SetFields(@, fields)]]
    ELSE [ok |-> FALSE, store |-> store]

\* The guard of compute_and_store_analytics on the status of the run.
NotSuccessful_OnlyFailed(run) == Lower(run.status) = "failed"

NotSuccessful(run) == Lower(run.status) # "success"

\* compute_and_store_analytics(run_id): what is returned (or raised) and the
\* store afterwards.
compute_and_store_analytics(store, m, run_id) ==
    IF ~RunExists(store, run_id)
    THEN [status |-> "returned", run_id |-> run_id, ok |-> FALSE,
          message |-> "Run not found.", store |-> store]
    ELSE IF NotSuccessful(store[run_id])
    THEN [status |-> "returned", run_id |-> run_id, ok |-> FALSE,
          message |-> "Analytics is only computed for successful runs.", store |-> store]
    ELSE IF CostDriversRaise(store[run_id])
    THEN [status |-> "raised", run_id |-> run_id, ok |-> FALSE,
          message |-> "KeyError: 'trips'", store |-> store]
    ELSE LET upd == update_run_fields(store, run_id, update_payload(store[run_id], m))
         IN  IF upd.ok
             THEN [status |-> "returned", run_id |-> run_id, ok |-> TRUE,
                   message |-> "Analytics computed and stored.", store |-> upd.store]
             ELSE [status |-> "returned", run_id |-> run_id, ok |-> FALSE,
                   message |-> "Failed to store analytics.", store |-> store]

\* Rows of the runs of the model (months ["1"]).
ProdRow(pid, q) == [plant_id |-> pid, month |-> "1", production |-> q]
ShipRow(q, n) == [from_id |-> "p1", to_id |-> "p2", mode |-> "road", month |-> "1",
                  shipment |-> q, trips |-> n]
ShipRowNoTrips(q) == [from_id |-> "p1", to_id |-> "p2", mode |-> "road", month |-> "1",
                      shipment |-> q]
InvRow(pid, q) == [plant_id |-> pid, month |-> "1", inventory |-> q]

\* A saved run: save_optimization_run's document.
RunDoc(status, prod, ship, inv, sm) ==
    [months |-> <<"1">>, status |-> status, objective_value |-> 11,
     cost_breakdown |-> [production |-> 6, transport |-> 5, holding |-> 0],
     production_rows |-> prod, transport_rows |-> ship, inventory_rows |-> inv,
     summary_metrics |-> sm]

NoMetrics == [k \in {} |-> <<>>]

RunInputs ==
    { \* half of every capacity used
      RunDoc("success", <<ProdRow("p1", 2)>>, <<ShipRow(1, 1)>>,
             <<InvRow("p1", 2), InvRow("p2", 2)>>, NoMetrics),
      \* demand served from stock: nothing produced, nothing shipped
      RunDoc("success", <<>>, <<>>, <<InvRow("p1", 1), InvRow("p2", 1)>>, NoMetrics),
      \* everything at capacity
      RunDoc("success", <<ProdRow("p1", 4)>>, <<ShipRow(2, 1)>>,
             <<InvRow("p1", 4), InvRow("p2", 4)>>, NoMetrics),
      \* production above the capacity the master data has today
      RunDoc("success", <<ProdRow("p1", 6)>>, <<ShipRow(1, 2)>>,
             <<InvRow("p1", 1), InvRow("p2", 1)>>, [note |-> <<"kept">>]),
      \* transport rows saved without a trips column
      RunDoc("success", <<ProdRow("p1", 2)>>, <<ShipRowNoTrips(1)>>,
             <<InvRow("p1", 2), InvRow("p2", 2)>>, NoMetrics),
      RunDoc("Success", <<ProdRow("p1", 1)>>, <<ShipRow(1, 2)>>,
             <<InvRow("p1", 1), InvRow("p2", 1)>>, NoMetrics),
      RunDoc("failed", <<ProdRow("p1", 2)>>, <<ShipRow(1, 1)>>,
             <<InvRow("p1", 2), InvRow("p2", 2)>>, NoMetrics),
      RunDoc("", <<>>, <<>>, <<InvRow("p1", 1), InvRow("p2", 1)>>, NoMetrics) }

InitAnalytics ==
    /\ SolverIdle
    /\ base_data = [plant_ids |-> <<>>, months |-> <<>>, demand |-> EmptyDict]
    /\ scenarios = <<>>
    /\ genResult = NoResult
    /\ master = AnalyticsMaster
    /\ mode = "none"
    /\ data = [months |-> <<>>]
    /\ plan = [Prod |-> <<>>]
    /\ stage = 0
    /\ run_pc = "analytics"
    /\ term = "none"
    /\ objectives = {}
    /\ results = [status |-> "none"]
    /\ stored = <<>>

\* create_run(doc): the document is inserted with its creation time.
CreateRun ==
    /\ run_pc = "analytics"
    /\ Len(stored) < MaxRuns
    /\ \E doc \in RunInputs :
          stored' = Append(stored, create_run(doc, Len(stored) + 1))
    /\ UNCHANGED <<master, mode, data, plan, stage, run_pc, term, objectives, results>>
    /\ UNCHANGED scenVars
    /\ UNCHANGED solverVars

\* compute_and_store_analytics(run_id) from the dashboard, for a stored run,
\* an id that is not in the store (MaxRuns + 1) or not an id at all (0).
ComputeAnalytics ==
    /\ run_pc = "analytics"
    /\ \E run_id \in 0..(MaxRuns + 1) :
          LET res == compute_and_store_analytics(stored, master, run_id)
          IN  /\ stored' = res.store
              /\ results' = [status |-> res.status, run_id |-> res.run_id,
                             ok |-> res.ok, message |-> res.message]
    /\ UNCHANGED <<master, mode, data, plan, stage, run_pc, term, objectives>>
    /\ UNCHANGED scenVars
    /\ UNCHANGED solverVars

NextAnalytics == CreateRun \/ ComputeAnalytics

SpecAnalytics == InitAnalytics /\ [][NextAnalytics]_vars


----------------------------------------------------------------------------
(* Properties of the analytics                                             *)

RunIds == 1..Len(stored)
HasAnalytics(i) == "analytics" \in DOMAIN stored[i]
ResilienceOf(i) == stored[i].analytics.resilience
WithValue(comp) == {k \in DOMAIN comp : comp[k] # None}
ComponentSum(comp) == SumOver(WithValue(comp), [k \in WithValue(comp) |-> comp[k][1]])

\* The class of a score by the thresholds 80 and 60.
ClassifiedByThresholds(r) ==
    /\ r.score >= 80 * PctOne => r.classification = "Resilient"
    /\ (r.score >= 60 * PctOne /\ r.score < 80 * PctOne) => r.classification = "Balanced"
    /\ r.score < 60 * PctOne => r.classification = "At Risk"

\* C23 (as stated): the stored resilience score is the mean of the four
\* components service level, production headroom, storage headroom and
\* transport headroom, and it is classified Resilient from 80, Balanced from
\* 60, At Risk below.
C23_ScoreIsMeanOfFour ==
    \A i \in RunIds : HasAnalytics(i) =>
        /\ WithValue(ResilienceOf(i).components) = DOMAIN ResilienceOf(i).components
        /\ 4 * ResilienceOf(i).score = ComponentSum(ResilienceOf(i).components)
        /\ ClassifiedByThresholds(ResilienceOf(i))

\* C23 (amended): the stored resilience score is the mean of the components
\* that have a value (a headroom has none when its utilization table is
\* empty; the service level always has one), and it is classified Resilient
\* from 80, Balanced from 60, At Risk below; with the four components at
\* 100/50/50/50 the score is 62.5 and the class Balanced.
C23_ScoreIsMeanOfAvailable ==
    \A i \in RunIds : HasAnalytics(i) =>
        LET r == ResilienceOf(i)
        IN  /\ DOMAIN r.components = {"service_level", "production_headroom",
                                      "storage_headroom", "transport_headroom"}
            /\ r.components.service_level # None
            /\ Cardinality(WithValue(r.components)) * r.score = ComponentSum(r.components)
            /\ ClassifiedByThresholds(r)
            /\ (r.components = [service_level |-> Some(100 * PctOne),
                                production_headroom |-> Some(50 * PctOne),
                                storage_headroom |-> Some(50 * PctOne),
                                transport_headroom |-> Some(50 * PctOne)])
                 => (2 * r.score = 125 * PctOne /\ r.classification = "Balanced")

\* Analytics are stored for a run without production and transport rows:
\* two headrooms have no value and the score is the mean of the other two.
C23_Witness ==
    \E i \in RunIds :
        /\ HasAnalytics(i)
        /\ ResilienceOf(i).components.production_headroom = None
        /\ ResilienceOf(i).components.transport_headroom = None
        /\ ResilienceOf(i).components.storage_headroom = Some(75 * PctOne)
        /\ 2 * ResilienceOf(i).score = 175 * PctOne
        /\ ResilienceOf(i).classification = "Resilient"

\* The fields of the stored runs outside the set F are the same after the step.
FieldsKeptOutside(F) ==
    \A i \in RunIds :
        /\ i \in 1..Len(stored')
        /\ \A f \in DOMAIN stored[i] \ F :
              f \in DOMAIN stored'[i] /\ stored'[i][f] = stored[i][f]

\* C24 (as stated): once a run is created, computing its analytics changes
\* no field of the stored run other than analytics.
C24_OnlyAnalyticsChanges == [][FieldsKeptOutside({"analytics"})]_vars

\* C24 (amended): once a run is created, computing its analytics changes no
\* field of the stored run other than analytics and summary_metrics, and in
\* summary_metrics only the keys resilience_score and
\* resilience_classification; every other field and key keeps its value,
\* however often the analytics are computed.
C24_OnlyAnalyticsAndSummaryChange ==
    [][/\ FieldsKeptOutside({"analytics", "summary_metrics"})
       /\ \A i \in RunIds :
             \A k \in DOMAIN stored[i].summary_metrics
                        \ {"resilience_score", "resilience_classification"} :
                 /\ k \in DOMAIN stored'[i].summary_metrics
                 /\ stored'[i].summary_metrics[k] = stored[i].summary_metrics[k]]_vars

\* Analytics were computed and stored for a run that came with a summary
\* metric of its own.
C24_Witness ==
    /\ results.status = "returned"
    /\ results.ok
    /\ \E i \in RunIds :
          /\ HasAnalytics(i)
          /\ DOMAIN stored[i].summary_metrics
               = {"note", "resilience_score", "resilience_classification"}
          /\ stored[i].status = "success"
          /\ stored[i].created_at = i

\* C25: when one metric sub-block fails (here the cost drivers, on transport
\* rows without a trips column), the call still returns and the analytics
\* with the KPIs and the utilization are stored.
C25_SubBlockFailureIsContained ==
    \A i \in RunIds :
        (/\ results.status # "none"
         /\ results.run_id = i
         /\ ~NotSuccessful(stored[i])
         /\ CostDriversRaise(stored[i]))
        => /\ results.status = "returned"
           /\ HasAnalytics(i)
           /\ "kpis" \in DOMAIN stored[i].analytics
           /\ "utilization" \in DOMAIN stored[i].analytics

\* A step that is a call of compute_and_store_analytics: the store keeps its
\* length and the result or the store changes.
AnalyticsCallStep ==
    /\ Len(stored') = Len(stored)
    /\ (results' # results \/ stored' # stored)

\* C30: a call for a run id that is not in the store, or for a run whose
\* status is not success, returns failure and leaves the store as it was;
\* every analytics object in the store reports a service level of 100.
C30_AnalyticsOnlyForSuccess ==
    /\ [](\A i \in RunIds : HasAnalytics(i) =>
              stored[i].analytics.kpis.service_level_percent = 100 * PctOne)
    /\ [][AnalyticsCallStep =>
            ((results'.run_id \notin RunIds
                \/ Lower(stored[results'.run_id].status) # "success")
             => /\ results'.status = "returned"
                /\ ~results'.ok
                /\ stored' = stored)]_vars

\* Analytics were refused for a run that is not a success while the store
\* holds analytics of another run, saved as "Success".
C30_Witness ==
    /\ results.status = "returned"
    /\ ~results.ok
    /\ results.message = "Analytics is only computed for successful runs."
    /\ results.run_id \in RunIds
    /\ ~HasAnalytics(results.run_id)
    /\ \E i \in RunIds : HasAnalytics(i) /\ stored[i].status = "Success"

----------------------------------------------------------------------------
(* Properties of the generated scenario set                                *)

\* C28: in every returned scenario set, each name of scenario_names is a key
\* of the probability map and has a demand entry for every plant and period,
\* the probability map has no other key, and there is one name per input
\* scenario.
C28_NamesIndexProbabilityAndDemand ==
    genResult.status = "ok" =>
        /\ \A n \in Range(genResult.scenario_names) :
              /\ n \in DOMAIN genResult.probability
              /\ \A p \in Range(base_data.plant_ids), t \in Range(base_data.months) :
                    <<n, p, t>> \in DOMAIN genResult.demand
        /\ DOMAIN genResult.probability \subseteq Range(genResult.scenario_names)
        /\ Len(genResult.scenario_names) = Len(scenarios)

----------------------------------------------------------------------------
(* The repair constraints against the deterministic ones                   *)

\* The plan with a DemandSlack variable at 0 for every plant and month.
WithZeroSlack(d, pl) ==
    [Prod |-> pl.Prod, Ship |-> pl.Ship, Trips |-> pl.Trips, Use |-> pl.Use,
     Inv |-> pl.Inv, DemandSlack |-> [k \in SetP(d) \X SetT(d) |-> 0]]

DeterministicPlan ==
    /\ mode = "deterministic"
    /\ PlanComplete
    /\ add_constraints(data, plan)

\* C26: every assignment of Prod, Ship, Trips, Use and Inv that satisfies the
\* deterministic constraint set satisfies the repair constraint set of the
\* same dataset with DemandSlack = 0 everywhere.
C26_RepairRelaxesDeterministic ==
    DeterministicPlan => add_feasible_constraints(data, WithZeroSlack(data, plan))

\* A deterministic plan that ships with trips on a route with a minimum
\* batch and holds some plant at its maximum inventory, above zero.
C26_Witness ==
    /\ DeterministicPlan
    /\ \E k \in DOMAIN plan.Trips : plan.Trips[k] > 0 /\ data.transport_sbq[k[1]] > 0
    /\ \E k \in DOMAIN plan.Inv :
          plan.Inv[k] = data.max_inventory[k[1]] /\ data.max_inventory[k[1]] > 0

----------------------------------------------------------------------------
(* Scenario inventories of the stochastic model                            *)

\* The demand of scenario s at plant p over the months up to t, in units of
\* 1 / MultOne ton.
CumulativeDemand(s, p, t) ==
    LET idx == CHOOSE i \in 1..Len(data.months) : data.months[i] = t
    IN  SumOver(1..idx, [i \in 1..idx |-> StochDemand(genResult, s, p, data.months[i])])

StochasticPlan ==
    /\ mode = "stochastic"
    /\ PlanComplete
    /\ build_stochastic_model(data, genResult, plan)

\* Some pair of scenarios differs in cumulative demand at some plant and
\* month by more than the room between safety stock and max inventory.
DemandGapTooWide ==
    \E s1 \in SetS(genResult), s2 \in SetS(genResult), p \in SetP(data), t \in SetT(data) :
        CumulativeDemand(s2, p, t) - CumulativeDemand(s1, p, t)
            > MultOne * (data.max_inventory[p] - data.safety_stock[p])

\* C27: in a plan that satisfies the stochastic constraints, the inventories
\* of two scenarios at a plant and month differ by the difference of the
\* scenarios' cumulative demands there; and the stochastic model has no
\* satisfying plan when that difference exceeds MaxInv - SafetyStock
\* somewhere.
C27_ScenarioInventoriesDifferByDemand ==
    /\ StochasticPlan =>
          \A s1 \in SetS(genResult), s2 \in SetS(genResult), p \in SetP(data), t \in SetT(data) :
              MultOne * (plan.Inv[<<s1, p, t>>] - plan.Inv[<<s2, p, t>>])
                  = CumulativeDemand(s2, p, t) - CumulativeDemand(s1, p, t)
    /\ (mode = "stochastic" /\ run_pc \in {"search", "done"} /\ DemandGapTooWide)
          => (objectives = {} /\ ~PlanComplete)

\* A satisfying stochastic plan in which two scenarios end a month with
\* different inventories at a plant.
C27_Witness ==
    /\ StochasticPlan
    /\ \E s1 \in SetS(genResult), s2 \in SetS(genResult), p \in SetP(data), t \in SetT(data) :
          plan.Inv[<<s1, p, t>>] > plan.Inv[<<s2, p, t>>]

\* A stochastic run that ended without a plan on a dataset with such a gap.
GapRunInfeasible ==
    mode = "stochastic" /\ run_pc = "done" /\ DemandGapTooWide /\ term = "infeasible"

----------------------------------------------------------------------------
(* The run page: ui/optimization_run.py, the body of the Run button.       *)
(* The page loads the data, builds the simple feasible model, calls        *)
(* solve_model with solver "cbc", parses and saves.  Every step sits in    *)
(* its own try block; what a step computes is modelled above, here each    *)
(* step either succeeds or raises.  run_pc is the position in the body,    *)
(* term the message the page ended on, and solve_model runs as in          *)
(* SpecSolver on the machine env.                                          *)

PageEnvs == {e \in SolverEnv : e.option_fail_at = 0}

\* if not outcome.ok: ... return, taken for error outcomes only
PageSolveFailed_OnlyErrors(o) == o.termination_condition = "error"

\* if not outcome.ok: ... return
PageSolveFailed(o) == ~o.ok

InitRun ==
    /\ base_data = [plant_ids |-> <<>>, months |-> <<>>, demand |-> EmptyDict]
    /\ scenarios = <<>>
    /\ genResult = NoResult
    /\ config = [solver_name |-> "cbc"]
    /\ env \in PageEnvs
    /\ pc = "off"
    /\ solver_name = "None"
    /\ fallback_chain = <<>>
    /\ avail_checks = <<>>
    /\ options_set = {}
    /\ solve_calls = <<>>
    /\ outcome = NoOutcome
    /\ master = [name |-> "run_page"]
    /\ mode = "simple"
    /\ data = [months |-> <<>>]
    /\ plan = [Prod |-> <<>>]
    /\ stage = 0
    /\ run_pc = "page_load"
    /\ term = "none"
    /\ objectives = {}
    /\ results = [status |-> "none"]
    /\ stored = [status |-> "none"]

\* Lines 48-59: load_simple_feasible_data returns the dataset or raises.
PageLoad ==
    /\ run_pc = "page_load"
    /\ \E raised \in BOOLEAN :
          IF raised
          THEN /\ term' = "Data loading failed"
               /\ run_pc' = "page_end"
               /\ UNCHANGED data
          ELSE /\ data' = [months |-> <<"1">>]
               /\ run_pc' = "page_build"
               /\ UNCHANGED term
    /\ UNCHANGED <<master, mode, plan, stage, objectives, results, stored>>
    /\ UNCHANGED scenVars
    /\ UNCHANGED solverVars

\* Lines 63-71: build_simple_feasible_model returns the model or raises.
PageBuild ==
    /\ run_pc = "page_build"
    /\ \E raised \in BOOLEAN :
          IF raised
          THEN /\ term' = "Model building failed"
               /\ run_pc' = "page_end"
               /\ UNCHANGED stage
          ELSE /\ stage' = 1
               /\ run_pc' = "page_solve"
               /\ UNCHANGED term
    /\ UNCHANGED <<master, mode, data, plan, objectives, results, stored>>
    /\ UNCHANGED scenVars
    /\ UNCHANGED solverVars

\* Lines 76-84: solve_model(model, SolverConfig(solver_name="cbc", ...)) is
\* entered.
PageCallSolve ==
    /\ run_pc = "page_solve"
    /\ pc = "off"
    /\ pc' = "idle"
    /\ run_pc' = "page_solving"
    /\ UNCHANGED <<config, env, solver_name, fallback_chain, avail_checks,
                   options_set, solve_calls, outcome>>
    /\ UNCHANGED <<master, mode, data, plan, stage, term, objectives, results, stored>>
    /\ UNCHANGED scenVars

\* Lines 86-91: solve_model has returned; the page stops on an outcome that
\* is not ok.
PageAfterSolve ==
    /\ run_pc = "page_solving"
    /\ pc = "done"
    /\ IF PageSolveFailed(outcome)
       THEN /\ term' = "Optimization failed"
            /\ run_pc' = "page_end"
       ELSE /\ run_pc' = "page_parse"
            /\ UNCHANGED term
    /\ UNCHANGED <<master, mode, data, plan, stage, objectives, results, stored>>
    /\ UNCHANGED scenVars
    /\ UNCHANGED solverVars

\* Lines 101-108: parse_simple_results returns the tables or raises.
PageParse ==
    /\ run_pc = "page_parse"
    /\ \E raised \in BOOLEAN :
          IF raised
          THEN /\ term' = "Result parsing failed"
               /\ run_pc' = "page_end"
               /\ UNCHANGED results
          ELSE /\ results' = [status |-> "parsed"]
               /\ run_pc' = "page_save"
               /\ UNCHANGED term
    /\ UNCHANGED <<master, mode, data, plan, stage, objectives, stored>>
    /\ UNCHANGED scenVars
    /\ UNCHANGED solverVars

\* Lines 113-141: save_optimization_run inserts the run, or returns
\* (False, ...) or raises; the page goes on to display the results.
PageSave ==
    /\ run_pc = "page_save"
    /\ \E saved \in {"ok", "not_ok", "raised"} :
          /\ stored' = IF saved = "ok" THEN [status |-> "saved"] ELSE stored
          /\ term' = CASE saved = "ok" -> "Results saved successfully"
                       [] saved = "not_ok" -> "Save warning"
                       [] OTHER -> "Save failed"
    /\ run_pc' = "page_end"
    /\ UNCHANGED <<master, mode, data, plan, stage, objectives, results>>
    /\ UNCHANGED scenVars
    /\ UNCHANGED solverVars

NextRun ==
    \/ PageLoad
    \/ PageBuild
    \/ PageCallSolve
    \/ NextSolver
    \/ PageAfterSolve
    \/ PageParse
    \/ PageSave

SpecRun == InitRun /\ [][NextRun]_vars

\* The positions of the page in the order of its body.
PageOrder ==
    {<<"page_load", "page_build">>, <<"page_build", "page_solve">>,
     <<"page_solve", "page_solving">>, <<"page_solving", "page_parse">>,
     <<"page_parse", "page_save">>}

PageFailures ==
    {"Data loading failed", "Model building failed", "Optimization failed",
     "Result parsing failed"}

\* C29: the steps of a run happen in the order loading, building, solving,
\* parsing, persisting; a run record is persisted only after a solve whose
\* outcome is ok and a successful parse; a failure at loading, building,
\* solving (an outcome that is not ok, infeasible and not_available
\* included) or parsing ends the run with no record persisted.
C29_RunStepsInOrder ==
    /\ [][run_pc' # run_pc =>
            (<<run_pc, run_pc'>> \in PageOrder \/ run_pc' = "page_end")]_vars
    /\ [][stored' # stored =>
            (/\ run_pc = "page_save"
             /\ data.months # <<>>
             /\ stage = 1
             /\ pc = "done"
             /\ outcome.ok
             /\ results.status = "parsed")]_vars
    /\ [][(run_pc = "page_solving" /\ pc = "done" /\ ~outcome.ok /\ run_pc' # run_pc)
            => run_pc' = "page_end"]_vars
    /\ []((run_pc = "page_end" /\ (term \in PageFailures \/ ~outcome.ok))
            => stored.status = "none")
    /\ [](stored.status # "none" => (outcome.ok /\ results.status = "parsed"))

\* The page ended with a saved record, after the solver it asked for was
\* missing and a fallback solved the model.
C29_Witness ==
    /\ run_pc = "page_end"
    /\ stored.status = "saved"
    /\ outcome.ok
    /\ outcome.solver_used # "cbc"
    /\ results.status = "parsed"

\* The page ended on a solve that was not ok: no solver, or an infeasible model.
RunEndedOnFailedSolve ==
    /\ run_pc = "page_end"
    /\ term = "Optimization failed"
    /\ outcome.termination_condition \in {"not_available", "infeasible"}

====
